---- MODULE Spec2Model ----
(***************************************************************************)
(* A model of tgf's configuration engine (config.go): the layered          *)
(* resolution of TGFConfig by InitConfig/setDefaultValues, the version     *)
(* validator (validate, ValidateVersion, CheckVersionRange), the image     *)
(* name composition (GetImageName), the tag of an image build (hash,       *)
(* GetTag), the expansion of aliases (parseAliases), the gate and the      *)
(* session of the cloud (awsConfigExist, getAwsConfig, InitAWS) and the    *)
(* updates (ShouldUpdate, DoUpdate).                                       *)
(*                                                                         *)
(* Representation.  A Go string whose characters the code inspects (image  *)
(* name, versions, range expressions) is a sequence of one-character       *)
(* strings; a string the code only stores and compares is a TLA+ string.   *)
(* A *string is a sequence of length 0 (nil) or 1.  A file name is the     *)
(* sequence of its path components, so filepath.Dir is Front and the root  *)
(* folder is << >>.  A duration is a number of minutes.  The raw text of a *)
(* configuration source is the record [ok, set]: whether ConvertData       *)
(* accepts it as YAML, JSON or HCL, and the keys it defines.               *)
(***************************************************************************)
EXTENDS Integers, Sequences, FiniteSets, TLC

VARIABLES
  pc,                         \* position of the process
  app,                        \* *TGFApplication: the command line options
  osEnv,                      \* the process environment (os.Getenv / os.Setenv)
  cloud,                      \* what the AWS services and the remote location answer
  cwd,                        \* os.Getwd()
  files,                      \* the configuration files on the local file system
  cachedAWSConfigExistCheck,  \* *bool, package variable
  cachedAwsConfig,            \* *aws.Config, package variable
  config,                     \* the TGFConfig being resolved
  configsData,                \* the layers setDefaultValues collected, in order
  loadCalls,                  \* durations passed to loadDefaultConfig, in order
  version,                    \* the version of the running tgf (package variable)
  errors,                     \* what validate() returned
  valid,                      \* what ValidateVersion() returned
  imageName,                  \* what GetImageName() returned
  buildConfig,                \* a TGFConfigBuild
  tree,                       \* the files below the folder of the build: mod times
  tagged,                     \* the calls of GetTag: what they read and returned
  arguments,                  \* the arguments of the command line (Unmanaged)
  expanded,                   \* what parseAliases returned
  gates,                      \* what the calls of awsConfigExist returned
  served,                     \* the calls of getAwsConfig and of InitAWS
  ssmReads,                   \* the number of reads of the parameter store
  sinceRefresh,               \* the time since the last check for an update
  due,                        \* what ShouldUpdate returned, and for which version
  release,                    \* what happens to the steps of an update
  binary,                     \* the executable of tgf
  updated,                    \* what DoUpdate returned and logged
  latest,                     \* what GetUpdateVersion returned, and its requests
  foundFiles,                 \* what findConfigFiles returned
  compared,                   \* the version and the range given to CheckVersionRange
  inRange                     \* what CheckVersionRange returned

\* The variables of the build tags
tagVars == <<buildConfig, tree, tagged>>

\* The variables of the aliases
aliasVars == <<arguments, expanded>>

\* The variables of the calls of the gate and of the session
sessionVars == <<gates, served, ssmReads>>

\* The variables of the updates
updateVars == <<sinceRefresh, due, release, binary, updated, latest>>

\* The variables of the search for configuration files
fileVars == <<foundFiles>>

\* The variables of the comparison of a version with a range
rangeVars == <<compared, inRange>>

vars == <<pc, app, osEnv, cloud, cwd, files, cachedAWSConfigExistCheck,
          cachedAwsConfig, config, configsData, loadCalls, version, errors,
          valid, imageName, tagVars, aliasVars, sessionVars, updateVars, fileVars, rangeVars>>

-----------------------------------------------------------------------------
(* Generic helpers *)

Nil == << >>

Ptr(v) == <<v>>

Reverse(s) == [i \in 1..Len(s) |-> s[Len(s) + 1 - i]]

Front(s) == SubSeq(s, 1, Len(s) - 1)

Last(s) == s[Len(s)]

\* map[key] of a Go map: the zero value when the key is missing
Lookup(m, k, zero) == IF k \in DOMAIN m THEN m[k] ELSE zero

EmptyMap == [k \in {} |-> ""]

-----------------------------------------------------------------------------
(* Constants of config.go *)

remoteDefaultConfigPath == "TGFConfig"

remoteConfigLocationParameter == "config-location"

remoteConfigPathsParameter == "config-paths"

configFile == ".tgf.config"

userConfigFile == "tgf.user.config"

tagSeparator == <<"-">>

\* time.Hour, in minutes
Hour == 60

\* Image: "coveo/tgf"
DefaultImage == <<"c", "o", "v", "e", "o", "/", "t", "g", "f">>

\* The fields of TGFConfig that a configuration source can define
ExportedFields ==
  {"Image", "ImageVersion", "ImageTag", "ImageBuild", "ImageBuildFolder",
   "ImageBuildTag", "LogLevel", "EntryPoint", "Refresh", "DockerOptions",
   "RecommendedImageVersion", "RequiredVersionRange", "RecommendedTGFVersion",
   "Environment", "RunBefore", "RunAfter", "Aliases", "UpdateVersion",
   "AutoUpdateDelay", "AutoUpdate"}

PointerFields == {"ImageVersion", "ImageTag"}

MapFields == {"Environment", "Aliases"}

\* The zero value of TGFConfig
ZeroConfig ==
  [Image |-> << >>, ImageVersion |-> Nil, ImageTag |-> Nil,
   ImageBuild |-> "", ImageBuildFolder |-> << >>, ImageBuildTag |-> << >>,
   LogLevel |-> "", EntryPoint |-> "", Refresh |-> 0, DockerOptions |-> << >>,
   RecommendedImageVersion |-> << >>, RequiredVersionRange |-> << >>,
   RecommendedTGFVersion |-> << >>, Environment |-> EmptyMap,
   RunBefore |-> "", RunAfter |-> "", Aliases |-> EmptyMap,
   UpdateVersion |-> "", AutoUpdateDelay |-> 0, AutoUpdate |-> FALSE,
   runBeforeCommands |-> << >>, runAfterCommands |-> << >>,
   imageBuildConfigs |-> << >>]

\* Defaults with the two delays taken for one another
InitialConfig_DelaysSwapped ==
  [ZeroConfig EXCEPT !.Image = DefaultImage,
                     !.Refresh = 2 * Hour,
                     !.AutoUpdateDelay = 1 * Hour,
                     !.AutoUpdate = TRUE,
                     !.EntryPoint = "terragrunt",
                     !.LogLevel = "notice"]

\* The composite literal of InitConfig
InitialConfig ==
  [ZeroConfig EXCEPT !.Image = DefaultImage,
                     !.Refresh = 1 * Hour,
                     !.AutoUpdateDelay = 2 * Hour,
                     !.AutoUpdate = TRUE,
                     !.EntryPoint = "terragrunt",
                     !.LogLevel = "notice",
                     !.Environment = EmptyMap,
                     !.imageBuildConfigs = << >>]

-----------------------------------------------------------------------------
(* The cloud-context gate *)

\* A gate that does not look for the folder ~/.aws
awsConfigExist_WithoutFolder(cache, a, env, cl) ==
  IF cache # Nil THEN cache[1]
  ELSE IF ~a.UseAWS THEN FALSE
  ELSE IF env["AWS_PROFILE"] \o env["AWS_ACCESS_KEY_ID"] \o env["AWS_CONFIG_FILE"]
            \o env["TGF_USE_AWS_CONFIG"] # "" THEN TRUE
  ELSE cl.awsCli

\* A gate that looks at the context on every call
awsConfigExist_Unmemoized(cache, a, env, cl) ==
  IF ~a.UseAWS THEN FALSE
  ELSE IF env["AWS_PROFILE"] \o env["AWS_ACCESS_KEY_ID"] \o env["AWS_CONFIG_FILE"]
            \o env["TGF_USE_AWS_CONFIG"] # "" THEN TRUE
  ELSE IF cl.awsCli THEN TRUE
  ELSE cl.awsFolder

\* awsConfigExist: the memoized result when there is one, else UseAWS and
\* (an AWS variable is set, or the aws CLI is on the path, or ~/.aws exists)
awsConfigExist(cache, a, env, cl) ==
  IF cache # Nil THEN cache[1]
  ELSE IF ~a.UseAWS THEN FALSE
  ELSE IF env["AWS_PROFILE"] \o env["AWS_ACCESS_KEY_ID"] \o env["AWS_CONFIG_FILE"]
            \o env["TGF_USE_AWS_CONFIG"] # "" THEN TRUE
  ELSE IF cl.awsCli THEN TRUE
  ELSE cl.awsFolder

-----------------------------------------------------------------------------
(* The credential session *)

\* The aws.Config that the n-th resolution of the process produces
Session(n, duration) ==
  [gen |-> n, duration |-> duration, Region |-> "us-east-1"]

\* Credentials.Retrieve on a session
Credentials(session) ==
  [AccessKeyID |-> "AKIA" \o ToString(session.gen),
   SecretAccessKey |-> "secret" \o ToString(session.gen),
   SessionToken |-> "token" \o ToString(session.gen)]

\* guessAwsMaxAssumeRoleDuration: the role's MaxSessionDuration, one hour when
\* the identity or the role cannot be read or the identity is no assumed role
guessAwsMaxAssumeRoleDuration(cl) ==
  IF cl.identity = "error" THEN 1 * Hour
  ELSE IF cl.identity # "assumed-role" THEN 1 * Hour
  ELSE IF ~cl.getRole THEN 1 * Hour
  ELSE cl.maxSessionDuration

\* A session manager that resolves a session on every call
getAwsConfig_Unshared(cache, assumeRoleDuration, cl) ==
  IF ~cl.load1 \/ ~cl.retrieve1
  THEN [err |-> TRUE, session |-> Session(1, assumeRoleDuration), cache |-> cache,
        calls |-> <<assumeRoleDuration>>]
  ELSE IF cl.short
  THEN LET shortConfig == Session(1, assumeRoleDuration)
           extended == IF cl.load2 THEN Session(2, assumeRoleDuration) ELSE shortConfig
       IN  [err |-> FALSE, session |-> extended, cache |-> Ptr(extended),
            calls |-> <<assumeRoleDuration, assumeRoleDuration>>]
  ELSE [err |-> FALSE, session |-> Session(1, assumeRoleDuration),
        cache |-> Ptr(Session(1, assumeRoleDuration)),
        calls |-> <<assumeRoleDuration>>]

\* A session manager for which a failed extension is an error
getAwsConfig_ExtensionFatal(cache, assumeRoleDuration, cl) ==
  IF cache # Nil
  THEN [err |-> FALSE, session |-> cache[1], cache |-> cache, calls |-> << >>]
  ELSE IF ~cl.load1 \/ ~cl.retrieve1
  THEN [err |-> TRUE, session |-> Session(1, assumeRoleDuration), cache |-> cache,
        calls |-> <<assumeRoleDuration>>]
  ELSE IF cl.short
  THEN [err |-> ~cl.load2, session |-> Session(2, assumeRoleDuration),
        cache |-> IF cl.load2 THEN Ptr(Session(2, assumeRoleDuration)) ELSE cache,
        calls |-> <<assumeRoleDuration, assumeRoleDuration>>]
  ELSE [err |-> FALSE, session |-> Session(1, assumeRoleDuration),
        cache |-> Ptr(Session(1, assumeRoleDuration)),
        calls |-> <<assumeRoleDuration>>]

\* getAwsConfig: [err, session, cache, calls] where calls are the durations
\* passed to loadDefaultConfig
getAwsConfig(cache, assumeRoleDuration, cl) ==
  IF cache # Nil
  THEN [err |-> FALSE, session |-> cache[1], cache |-> cache, calls |-> << >>]
  ELSE IF ~cl.load1 \/ ~cl.retrieve1
  THEN [err |-> TRUE, session |-> Session(1, assumeRoleDuration), cache |-> cache,
        calls |-> <<assumeRoleDuration>>]
  ELSE IF cl.short
  THEN LET shortConfig == Session(1, assumeRoleDuration)
           extended == IF cl.load2 THEN Session(2, assumeRoleDuration) ELSE shortConfig
       IN  [err |-> FALSE, session |-> extended, cache |-> Ptr(extended),
            calls |-> <<assumeRoleDuration, assumeRoleDuration>>]
  ELSE [err |-> FALSE, session |-> Session(1, assumeRoleDuration),
        cache |-> Ptr(Session(1, assumeRoleDuration)),
        calls |-> <<assumeRoleDuration>>]

\* Whether Credentials.Retrieve succeeds on a session that getAwsConfig returned
RetrieveOK(session, cl) == IF session.gen = 1 THEN cl.retrieve1 ELSE cl.retrieve2

\* An InitAWS that puts the credentials into the configuration in every mode
InitAWS_DumpsCredentials(cfg, a, env, cache, cl) ==
  LET r == getAwsConfig(cache, 0, cl)
      unchanged == [err |-> TRUE, cache |-> r.cache, calls |-> r.calls, env |-> env,
                    Environment |-> cfg.Environment]
  IN  IF r.err THEN unchanged
      ELSE IF ~RetrieveOK(r.session, cl) THEN unchanged
      ELSE LET creds == Credentials(r.session)
               exported == [AWS_ACCESS_KEY_ID |-> creds.AccessKeyID,
                            AWS_SECRET_ACCESS_KEY |-> creds.SecretAccessKey,
                            AWS_SESSION_TOKEN |-> creds.SessionToken,
                            AWS_REGION |-> r.session.Region]
           IN  [err |-> FALSE, cache |-> r.cache, calls |-> r.calls,
                env |-> [k \in DOMAIN env |->
                           IF k \in {"AWS_PROFILE", "AWS_DEFAULT_PROFILE"} THEN ""
                           ELSE IF k \in DOMAIN exported THEN exported[k]
                           ELSE env[k]],
                Environment |->
                  [k \in DOMAIN cfg.Environment \cup DOMAIN exported |->
                     IF k \in DOMAIN exported THEN exported[k]
                     ELSE cfg.Environment[k]]]

\* An InitAWS that unsets the profiles before it opens the session
InitAWS_UnsetsFirst(cfg, a, env, cache, cl) ==
  LET r == getAwsConfig(cache, 0, cl)
      cleared == [k \in DOMAIN env |->
                    IF k \in {"AWS_PROFILE", "AWS_DEFAULT_PROFILE"} THEN "" ELSE env[k]]
      unchanged == [err |-> TRUE, cache |-> r.cache, calls |-> r.calls, env |-> cleared,
                    Environment |-> cfg.Environment]
  IN  IF r.err THEN unchanged
      ELSE IF ~RetrieveOK(r.session, cl) THEN unchanged
      ELSE LET creds == Credentials(r.session)
               exported == [AWS_ACCESS_KEY_ID |-> creds.AccessKeyID,
                            AWS_SECRET_ACCESS_KEY |-> creds.SecretAccessKey,
                            AWS_SESSION_TOKEN |-> creds.SessionToken,
                            AWS_REGION |-> r.session.Region]
           IN  [err |-> FALSE, cache |-> r.cache, calls |-> r.calls,
                env |-> [k \in DOMAIN env |->
                           IF k \in DOMAIN exported THEN exported[k] ELSE cleared[k]],
                Environment |->
                  IF a.ConfigDump THEN cfg.Environment
                  ELSE [k \in DOMAIN cfg.Environment \cup DOMAIN exported |->
                          IF k \in DOMAIN exported THEN exported[k]
                          ELSE cfg.Environment[k]]]

\* InitAWS: [err, cache, calls, env, Environment]
InitAWS(cfg, a, env, cache, cl) ==
  LET r == getAwsConfig(cache, 0, cl)
      unchanged == [err |-> TRUE, cache |-> r.cache, calls |-> r.calls, env |-> env,
                    Environment |-> cfg.Environment]
  IN  IF r.err THEN unchanged
      ELSE IF ~RetrieveOK(r.session, cl) THEN unchanged
      ELSE LET creds == Credentials(r.session)
               exported == [AWS_ACCESS_KEY_ID |-> creds.AccessKeyID,
                            AWS_SECRET_ACCESS_KEY |-> creds.SecretAccessKey,
                            AWS_SESSION_TOKEN |-> creds.SessionToken,
                            AWS_REGION |-> r.session.Region]
           IN  [err |-> FALSE, cache |-> r.cache, calls |-> r.calls,
                env |-> [k \in DOMAIN env |->
                           IF k \in {"AWS_PROFILE", "AWS_DEFAULT_PROFILE"} THEN ""
                           ELSE IF k \in DOMAIN exported THEN exported[k]
                           ELSE env[k]],
                Environment |->
                  IF a.ConfigDump THEN cfg.Environment
                  ELSE [k \in DOMAIN cfg.Environment \cup DOMAIN exported |->
                          IF k \in DOMAIN exported THEN exported[k]
                          ELSE cfg.Environment[k]]]

-----------------------------------------------------------------------------
(* The configuration sources *)

\* The raw text of a source that defines the keys of `set`
Text(set) == [ok |-> TRUE, set |-> set]

\* A raw text that is neither YAML, JSON nor HCL
Garbage == [ok |-> FALSE, set |-> EmptyMap]

\* The empty string, as a raw text
EmptyText == Text(EmptyMap)

\* A read that returns the parameters although GetParametersByPath failed
readSSMParameterStore_IgnoresError(cache, cl, n) ==
  LET r == getAwsConfig(cache, 0, cl)
  IN  [values |-> IF r.err THEN EmptyMap ELSE cl.ssm,
       cache |-> r.cache, calls |-> r.calls]

\* readSSMParameterStore, the n-th GetParametersByPath of the process:
\* [values, cache, calls]; no value when the session or the read fails
readSSMParameterStore(cache, cl, n) ==
  LET r == getAwsConfig(cache, 0, cl)
  IN  [values |-> IF r.err \/ ~cl.ssmOK[n] THEN EmptyMap ELSE cl.ssm,
       cache |-> r.cache, calls |-> r.calls]

\* parseSsmConfig: one "key: value" line per parameter, "" when there is none
parseSsmConfig(parameterValues) == Text(parameterValues)

\* findRemoteConfigFiles: the non-empty contents of the files that could be
\* fetched, in the order of the paths
findRemoteConfigFiles(location, paths, cl) ==
  IF location = "" THEN << >>
  ELSE LET configPaths == IF paths = << >> THEN <<remoteDefaultConfigPath>> ELSE paths
           fetched == SelectSeq(configPaths,
                                LAMBDA configPath : /\ cl.remote[configPath].fetched
                                                    /\ cl.remote[configPath].raw # EmptyText)
       IN  [i \in 1..Len(fetched) |-> cl.remote[fetched[i]].raw]

\* A search that puts the files of a folder before those of its parents
RECURSIVE findConfigFiles_LeafFirst(_, _, _)
findConfigFiles_LeafFirst(folder, a, fs) ==
  LET names == IF a.DisableUserConfig THEN <<configFile>>
               ELSE <<userConfigFile, configFile>>
      result == SelectSeq([i \in 1..Len(names) |-> Append(folder, names[i])],
                          LAMBDA file : file \in DOMAIN fs)
  IN  IF folder = << >> THEN result
      ELSE result \o findConfigFiles_LeafFirst(Front(folder), a, fs)

\* findConfigFiles: the existing tgf.user.config and .tgf.config of the folder,
\* after those of its parents
RECURSIVE findConfigFiles(_, _, _)
findConfigFiles(folder, a, fs) ==
  LET names == IF a.DisableUserConfig THEN <<configFile>>
               ELSE <<userConfigFile, configFile>>
      result == SelectSeq([i \in 1..Len(names) |-> Append(folder, names[i])],
                          LAMBDA file : file \in DOMAIN fs)
  IN  IF folder = << >> THEN result
      ELSE findConfigFiles(Front(folder), a, fs) \o result

-----------------------------------------------------------------------------
(* Parsing and merging *)

\* What the decoder stores in a field for a value of the text: a pointer field
\* gets a pointer to it, a map keeps the entries the text does not define
Decoded(field, old, value) ==
  IF field \in PointerFields THEN Ptr(value)
  ELSE IF field \in MapFields
  THEN [k \in DOMAIN old \cup DOMAIN value |->
          IF k \in DOMAIN value THEN value[k] ELSE old[k]]
  ELSE value

\* A decoder that sets only the fields that still have their default
ConvertData_FirstWins(raw, out) ==
  IF ~raw.ok THEN [err |-> TRUE, out |-> out]
  ELSE [err |-> FALSE,
        out |-> [f \in DOMAIN out |->
                   IF f \in ExportedFields /\ f \in DOMAIN raw.set
                        /\ out[f] \in {InitialConfig[f], ZeroConfig[f]}
                   THEN Decoded(f, out[f], raw.set[f])
                   ELSE out[f]]]

\* collections.ConvertData(raw, config): [err, out]; the fields the text
\* defines are overwritten, the others are kept
ConvertData(raw, out) ==
  IF ~raw.ok THEN [err |-> TRUE, out |-> out]
  ELSE [err |-> FALSE,
        out |-> [f \in DOMAIN out |->
                   IF f \in ExportedFields /\ f \in DOMAIN raw.set
                   THEN Decoded(f, out[f], raw.set[f])
                   ELSE out[f]]]

\* collections.ConvertData(raw, &configData.Config), Config being nil before
ConvertDataToNew(raw) ==
  IF ~raw.ok THEN Nil ELSE Ptr(ConvertData(raw, ZeroConfig).out)

\* A first loop that gives up at the first layer that does not parse
RECURSIVE ParseConfigs_StopAtError(_, _, _)
ParseConfigs_StopAtError(cfg, data, i) ==
  IF i > Len(data) \/ ConvertData(data[i].Raw, cfg).err THEN cfg
  ELSE ParseConfigs_StopAtError(ConvertData(data[i].Raw, cfg).out, data, i + 1)

\* The first loop of setDefaultValues: every layer is decoded into config
RECURSIVE ParseConfigs(_, _, _)
ParseConfigs(cfg, data, i) ==
  IF i > Len(data) THEN cfg
  ELSE ParseConfigs(ConvertData(data[i].Raw, cfg).out, data, i + 1)

\* A round that appends the build spec instead of prepending it
CollectLists_AppendBuild(cfg, configData) ==
  IF configData.Config = Nil THEN cfg
  ELSE LET c == configData.Config[1]
       IN  [cfg EXCEPT
              !.imageBuildConfigs =
                 IF c.ImageBuild # ""
                 THEN Append(@, [Instructions |-> c.ImageBuild,
                                 Folder |-> c.ImageBuildFolder,
                                 Tag |-> c.ImageBuildTag, source |-> configData.Name])
                 ELSE @,
              !.runBeforeCommands =
                 IF c.RunBefore # "" THEN Append(@, c.RunBefore) ELSE @,
              !.runAfterCommands =
                 IF c.RunAfter # "" THEN Append(@, c.RunAfter) ELSE @]

\* A round that puts the run-after command before those of the earlier layers
CollectLists_PrependRunAfter(cfg, configData) ==
  IF configData.Config = Nil THEN cfg
  ELSE LET c == configData.Config[1]
       IN  [cfg EXCEPT
              !.imageBuildConfigs =
                 IF c.ImageBuild # ""
                 THEN <<[Instructions |-> c.ImageBuild, Folder |-> c.ImageBuildFolder,
                         Tag |-> c.ImageBuildTag, source |-> configData.Name]>> \o @
                 ELSE @,
              !.runBeforeCommands =
                 IF c.RunBefore # "" THEN Append(@, c.RunBefore) ELSE @,
              !.runAfterCommands =
                 IF c.RunAfter # "" THEN <<c.RunAfter>> \o @ ELSE @]

\* One round of the second loop of setDefaultValues
CollectLists(cfg, configData) ==
  IF configData.Config = Nil THEN cfg
  ELSE LET c == configData.Config[1]
       IN  [cfg EXCEPT
              !.imageBuildConfigs =
                 IF c.ImageBuild # ""
                 THEN <<[Instructions |-> c.ImageBuild, Folder |-> c.ImageBuildFolder,
                         Tag |-> c.ImageBuildTag, source |-> configData.Name]>> \o @
                 ELSE @,
              !.runBeforeCommands =
                 IF c.RunBefore # "" THEN Append(@, c.RunBefore) ELSE @,
              !.runAfterCommands =
                 IF c.RunAfter # "" THEN Append(@, c.RunAfter) ELSE @]

\* The second loop of setDefaultValues
RECURSIVE CollectAll(_, _, _)
CollectAll(cfg, data, i) ==
  IF i > Len(data) THEN cfg
  ELSE CollectAll(CollectLists(cfg, data[i]), data, i + 1)

\* Run-before commands left in the order of the layers
FinalRunBefore_NotReversed(commands) == commands

\* The run-before commands as setDefaultValues leaves them
FinalRunBefore(commands) == Reverse(commands)

\* A merge that reverses the run-after commands as well
MergeConfigs_ReverseBoth(cfg, data) ==
  LET parsed == [i \in 1..Len(data) |->
                   [Name |-> data[i].Name, Raw |-> data[i].Raw,
                    Config |-> ConvertDataToNew(data[i].Raw)]]
      collected == CollectAll(ParseConfigs(cfg, parsed, 1), parsed, 1)
  IN  [config |-> [collected EXCEPT !.runBeforeCommands = FinalRunBefore(@),
                                    !.runAfterCommands = Reverse(@)],
       configsData |-> parsed]

\* The part of setDefaultValues that follows the collection of the layers:
\* [config, configsData]
MergeConfigs(cfg, data) ==
  LET parsed == [i \in 1..Len(data) |->
                   [Name |-> data[i].Name, Raw |-> data[i].Raw,
                    Config |-> ConvertDataToNew(data[i].Raw)]]
      collected == CollectAll(ParseConfigs(cfg, parsed, 1), parsed, 1)
  IN  [config |-> [collected EXCEPT !.runBeforeCommands = FinalRunBefore(@)],
       configsData |-> parsed]

\* The layers of setDefaultValues, lowest priority first
RemoteLayers(contents) ==
  [i \in 1..Len(contents) |-> [Name |-> <<"RemoteConfigFile">>, Raw |-> contents[i]]]

ParameterStoreLayer(ssmConfig) ==
  IF ssmConfig # EmptyText
  THEN <<[Name |-> <<"AWS", "ParametersStore">>, Raw |-> ssmConfig]>>
  ELSE << >>

LocalLayers(found, fs) ==
  LET readable == SelectSeq(found, LAMBDA file : fs[file].readable)
  IN  [i \in 1..Len(readable) |-> [Name |-> readable[i], Raw |-> fs[readable[i]].raw]]

\* The run of setDefaultValues is the record
\* [fatal, config, configsData, app, env, gate, cache, calls, reads]: what it
\* has done to the receiver, the application, the process environment and the
\* two package caches so far, the durations it passed to loadDefaultConfig and
\* the number of its reads of the parameter store.

ApplyInitAWS(st, aws) ==
  [st EXCEPT !.fatal = aws.err, !.cache = aws.cache, !.calls = @ \o aws.calls,
             !.env = aws.env, !.config.Environment = aws.Environment]

\* A session opened whatever the gate says
OpenSession_Ungated(st, cl) ==
  LET gate == awsConfigExist(st.gate, st.app, st.env, cl)
  IN  ApplyInitAWS([st EXCEPT !.gate = Ptr(gate)],
                   InitAWS(st.config, st.app, st.env, st.cache, cl))

\* if config.awsConfigExist() { if err := config.InitAWS(); err != nil { log.Fatal } }
OpenSession(st, cl) ==
  LET gate == awsConfigExist(st.gate, st.app, st.env, cl)
  IN  IF gate
      THEN ApplyInitAWS([st EXCEPT !.gate = Ptr(gate)],
                        InitAWS(st.config, st.app, st.env, st.cache, cl))
      ELSE [st EXCEPT !.gate = Ptr(gate)]

ApplyLocation(st, read) ==
  [st EXCEPT
     !.app.ConfigLocation = Lookup(read.values, remoteConfigLocationParameter, ""),
     !.app.ConfigFiles =
        IF @ = << >> THEN Lookup(read.values, remoteConfigPathsParameter, << >>) ELSE @,
     !.cache = read.cache, !.calls = @ \o read.calls, !.reads = @ + 1]

\* if app.ConfigLocation == "" { values := config.readSSMParameterStore(...) ... }
LookupLocation(st, cl) ==
  IF st.gate[1] /\ st.app.ConfigLocation = ""
  THEN ApplyLocation(st, readSSMParameterStore(st.cache, cl, st.reads + 1))
  ELSE st

\* for _, configFile := range config.findRemoteConfigFiles(...)
FetchRemoteConfigs(st, cl) ==
  [st EXCEPT !.configsData =
     @ \o RemoteLayers(findRemoteConfigFiles(st.app.ConfigLocation, st.app.ConfigFiles, cl))]

ApplyParameterStore(st, read) ==
  [st EXCEPT !.configsData = @ \o ParameterStoreLayer(parseSsmConfig(read.values)),
             !.cache = read.cache, !.calls = @ \o read.calls, !.reads = @ + 1]

\* A parameter-store layer added after the remote files as well
FetchParameterStore_AfterRemoteFiles(st, cl) ==
  IF awsConfigExist(st.gate, st.app, st.env, cl)
  THEN ApplyParameterStore(st, readSSMParameterStore(st.cache, cl, st.reads + 1))
  ELSE st

\* if config.awsConfigExist() { if len(configsData) == 0 { ... } }
FetchParameterStore(st, cl) ==
  IF awsConfigExist(st.gate, st.app, st.env, cl) /\ Len(st.configsData) = 0
  THEN ApplyParameterStore(st, readSSMParameterStore(st.cache, cl, st.reads + 1))
  ELSE st

\* Local files put before the layers collected so far
FetchFileConfigs_First(st, folder, fs) ==
  [st EXCEPT !.configsData = LocalLayers(findConfigFiles(folder, st.app, fs), fs) \o @]

\* for _, configFile := range config.findConfigFiles(must(os.Getwd()).(string))
FetchFileConfigs(st, folder, fs) ==
  [st EXCEPT !.configsData = @ \o LocalLayers(findConfigFiles(folder, st.app, fs), fs)]

ApplyMerge(st, merged) ==
  [st EXCEPT !.config = merged.config, !.configsData = merged.configsData]

\* The two loops over configsData
ParseAndCollect(st) == ApplyMerge(st, MergeConfigs(st.config, st.configsData))

\* What follows the opening of the session, unless InitAWS was fatal
ResolveLayers(st, cl, folder, fs) ==
  IF st.fatal THEN st
  ELSE ParseAndCollect(
         FetchFileConfigs(
           FetchParameterStore(
             FetchRemoteConfigs(LookupLocation(st, cl), cl), cl), folder, fs))

\* setDefaultValues on the receiver cfg
setDefaultValues(cfg, a, env, gateCache, sessCache, cl, folder, fs) ==
  ResolveLayers(
    OpenSession([fatal |-> FALSE, config |-> cfg, configsData |-> << >>, app |-> a,
                 env |-> env, gate |-> gateCache, cache |-> sessCache,
                 calls |-> << >>, reads |-> 0], cl),
    cl, folder, fs)

-----------------------------------------------------------------------------
(* The process *)

\* InitConfig: the built-in defaults, then setDefaultValues.  No input defines
\* an alias, so that the ParseAliases that follows leaves the application as
\* it is.
InitConfig ==
  /\ pc = "start"
  /\ \E r \in {setDefaultValues(InitialConfig, app, osEnv, cachedAWSConfigExistCheck,
                                 cachedAwsConfig, cloud, cwd, files)} :
         /\ pc' = IF r.fatal THEN "fatal" ELSE "configured"
         /\ config' = r.config
         /\ configsData' = r.configsData
         /\ app' = r.app
         /\ osEnv' = r.env
         /\ cachedAWSConfigExistCheck' = r.gate
         /\ cachedAwsConfig' = r.cache
         /\ loadCalls' = loadCalls \o r.calls
         /\ ssmReads' = ssmReads + r.reads
  /\ UNCHANGED <<cloud, cwd, files, version, errors, valid, imageName>>
  /\ UNCHANGED <<tagVars, aliasVars, gates, served, updateVars, fileVars, rangeVars>>

-----------------------------------------------------------------------------
(* Strings, as the validation reads them: sequences of characters *)

Digits == {"0", "1", "2", "3", "4", "5", "6", "7", "8", "9"}

\* The characters of a prerelease or build identifier, in byte order
Ascii ==
  <<"-", "0", "1", "2", "3", "4", "5", "6", "7", "8", "9",
    "A", "B", "C", "D", "E", "F", "G", "H", "I", "J", "K", "L", "M",
    "N", "O", "P", "Q", "R", "S", "T", "U", "V", "W", "X", "Y", "Z",
    "a", "b", "c", "d", "e", "f", "g", "h", "i", "j", "k", "l", "m",
    "n", "o", "p", "q", "r", "s", "t", "u", "v", "w", "x", "y", "z">>

AlphaNum == {Ascii[i] : i \in 1..Len(Ascii)}

ByteOrder == [c \in AlphaNum |-> CHOOSE i \in 1..Len(Ascii) : Ascii[i] = c]

DigitValue == [c \in Digits |-> ByteOrder[c] - ByteOrder["0"]]

\* strings.IndexFunc, counted from 1; 0 when no character is in the set
IndexFunc(s, chars) ==
  IF \E i \in 1..Len(s) : s[i] \in chars
  THEN CHOOSE i \in 1..Len(s) :
         s[i] \in chars /\ \A j \in 1..(i - 1) : s[j] \notin chars
  ELSE 0

IndexRune(s, c) == IndexFunc(s, {c})

ContainsAny(s, chars) == \E i \in 1..Len(s) : s[i] \in chars

Count(s, c) == Cardinality({i \in 1..Len(s) : s[i] = c})

containsOnly(s, chars) == \A i \in 1..Len(s) : s[i] \in chars

hasLeadingZeroes(s) == Len(s) > 1 /\ s[1] = "0"

RECURSIVE SplitN(_, _, _)
\* strings.SplitN: at most n parts
SplitN(s, c, n) ==
  IF n = 1 \/ IndexRune(s, c) = 0 THEN <<s>>
  ELSE <<SubSeq(s, 1, IndexRune(s, c) - 1)>>
         \o SplitN(SubSeq(s, IndexRune(s, c) + 1, Len(s)), c, n - 1)

\* strings.Split
Split(s, c) == SplitN(s, c, Len(s) + 1)

RECURSIVE ParseUint(_)
\* strconv.ParseUint of a non-empty string of digits (the numbers of the
\* inputs are far below 2^64)
ParseUint(s) ==
  IF s = << >> THEN 0 ELSE 10 * ParseUint(Front(s)) + DigitValue[Last(s)]

\* A numeric component that semver accepts
IsNumber(s) == s # << >> /\ containsOnly(s, Digits) /\ ~hasLeadingZeroes(s)

-----------------------------------------------------------------------------
(* Versions and ranges, as CheckVersionRange gets them from semver *)

NoVersion == [Major |-> 0, Minor |-> 0, Patch |-> 0, Pre |-> << >>]

\* semver.NewPRVersion
NewPRVersion(s) ==
  IF s = << >> THEN [err |-> TRUE, IsNum |-> FALSE, VersionNum |-> 0, VersionStr |-> << >>]
  ELSE IF containsOnly(s, Digits)
  THEN [err |-> hasLeadingZeroes(s), IsNum |-> TRUE,
        VersionNum |-> ParseUint(s), VersionStr |-> << >>]
  ELSE [err |-> ~containsOnly(s, AlphaNum), IsNum |-> FALSE,
        VersionNum |-> 0, VersionStr |-> s]

\* What follows major.minor. , without the build metadata
BeforeBuild(patchStr) ==
  IF IndexRune(patchStr, "+") = 0 THEN patchStr
  ELSE SubSeq(patchStr, 1, IndexRune(patchStr, "+") - 1)

BuildPart(patchStr) ==
  IF IndexRune(patchStr, "+") = 0 THEN << >>
  ELSE Split(SubSeq(patchStr, IndexRune(patchStr, "+") + 1, Len(patchStr)), ".")

PatchPart(s) ==
  IF IndexRune(s, "-") = 0 THEN s ELSE SubSeq(s, 1, IndexRune(s, "-") - 1)

PrereleasePart(s) ==
  IF IndexRune(s, "-") = 0 THEN << >>
  ELSE Split(SubSeq(s, IndexRune(s, "-") + 1, Len(s)), ".")

\* The end of semver.Parse, once the string is split in three
ParseParts(major, minor, patchStr, prerelease, build) ==
  IF \/ ~IsNumber(major) \/ ~IsNumber(minor) \/ ~IsNumber(patchStr)
     \/ \E i \in 1..Len(prerelease) : NewPRVersion(prerelease[i]).err
     \/ \E i \in 1..Len(build) :
          build[i] = << >> \/ ~containsOnly(build[i], AlphaNum)
  THEN [err |-> TRUE, v |-> NoVersion]
  ELSE [err |-> FALSE,
        v |-> [Major |-> ParseUint(major), Minor |-> ParseUint(minor),
               Patch |-> ParseUint(patchStr),
               Pre |-> [i \in 1..Len(prerelease) |-> NewPRVersion(prerelease[i])]]]

\* semver.Parse, which semver.Make calls
Parse(s) ==
  IF s = << >> \/ Len(SplitN(s, ".", 3)) # 3 THEN [err |-> TRUE, v |-> NoVersion]
  ELSE ParseParts(SplitN(s, ".", 3)[1], SplitN(s, ".", 3)[2],
                  PatchPart(BeforeBuild(SplitN(s, ".", 3)[3])),
                  PrereleasePart(BeforeBuild(SplitN(s, ".", 3)[3])),
                  BuildPart(SplitN(s, ".", 3)[3]))

CompareInt(a, b) == IF a < b THEN -1 ELSE IF a > b THEN 1 ELSE 0

RECURSIVE CompareString(_, _)
\* Strings compare byte by byte
CompareString(a, b) ==
  IF a = << >> /\ b = << >> THEN 0
  ELSE IF a = << >> THEN -1
  ELSE IF b = << >> THEN 1
  ELSE IF a[1] # b[1] THEN CompareInt(ByteOrder[a[1]], ByteOrder[b[1]])
  ELSE CompareString(Tail(a), Tail(b))

\* PRVersion.Compare
ComparePR(v, o) ==
  IF v.IsNum /\ ~o.IsNum THEN -1
  ELSE IF ~v.IsNum /\ o.IsNum THEN 1
  ELSE IF v.IsNum THEN CompareInt(v.VersionNum, o.VersionNum)
  ELSE CompareString(v.VersionStr, o.VersionStr)

RECURSIVE ComparePre(_, _)
ComparePre(v, o) ==
  IF v = << >> /\ o = << >> THEN 0
  ELSE IF v = << >> THEN -1
  ELSE IF o = << >> THEN 1
  ELSE IF ComparePR(v[1], o[1]) # 0 THEN ComparePR(v[1], o[1])
  ELSE ComparePre(Tail(v), Tail(o))

\* Version.Compare
Compare(v, o) ==
  IF v.Major # o.Major THEN CompareInt(v.Major, o.Major)
  ELSE IF v.Minor # o.Minor THEN CompareInt(v.Minor, o.Minor)
  ELSE IF v.Patch # o.Patch THEN CompareInt(v.Patch, o.Patch)
  ELSE IF v.Pre = << >> /\ o.Pre = << >> THEN 0
  ELSE IF v.Pre = << >> THEN 1
  ELSE IF o.Pre = << >> THEN -1
  ELSE ComparePre(v.Pre, o.Pre)

RECURSIVE splitLoop(_, _, _, _, _)
\* The loop of semver's splitAndTrim; i and last count from 0 as in the code
splitLoop(s, i, last, lastChar, result) ==
  IF i >= Len(s)
  THEN IF last < Len(s) - 1 THEN Append(result, SubSeq(s, last + 1, Len(s)))
       ELSE result
  ELSE IF s[i + 1] = " " /\ lastChar \notin {">", "<", "="}
  THEN splitLoop(s, i + 1, i + 1, lastChar,
                 IF last < i - 1 THEN Append(result, SubSeq(s, last + 1, i))
                 ELSE result)
  ELSE IF s[i + 1] # " " THEN splitLoop(s, i + 1, last, s[i + 1], result)
  ELSE splitLoop(s, i + 1, last, lastChar, result)

\* Splits a range at the spaces that do not follow an operator
splitAndTrim(s) ==
  [k \in 1..Len(splitLoop(s, 0, 0, "", << >>)) |->
     SelectSeq(splitLoop(s, 0, 0, "", << >>)[k], LAMBDA c : c # " ")]

RECURSIVE orLoop(_, _, _, _)
orLoop(parts, i, last, ORparts) ==
  IF i >= Len(parts)
  THEN IF last = Len(parts) THEN [err |-> TRUE, parts |-> << >>]
       ELSE [err |-> FALSE,
             parts |-> Append(ORparts, SubSeq(parts, last + 1, Len(parts)))]
  ELSE IF parts[i + 1] = <<"|", "|">>
  THEN IF i = 0 THEN [err |-> TRUE, parts |-> << >>]
       ELSE orLoop(parts, i + 1, i + 1, Append(ORparts, SubSeq(parts, last + 1, i)))
  ELSE orLoop(parts, i + 1, last, ORparts)

\* Splits the cleaned parts at "||"
splitORParts(parts) == orLoop(parts, 0, 0, << >>)

\* Cuts a comparison before its first digit
splitComparatorVersion(s) ==
  IF IndexFunc(s, Digits) = 0 THEN [err |-> TRUE, opStr |-> << >>, vStr |-> << >>]
  ELSE [err |-> FALSE, opStr |-> SubSeq(s, 1, IndexFunc(s, Digits) - 1),
        vStr |-> SubSeq(s, IndexFunc(s, Digits), Len(s))]

parseComparator(opStr) ==
  CASE opStr \in {<< >>, <<"=">>, <<"=", "=">>} -> "EQ"
    [] opStr = <<">">> -> "GT"
    [] opStr = <<">", "=">> -> "GE"
    [] opStr = <<"<">> -> "LT"
    [] opStr = <<"<", "=">> -> "LE"
    [] opStr \in {<<"!">>, <<"!", "=">>} -> "NE"
    [] OTHER -> "nil"

\* One comparison of a range: its comparator and its version
buildVersionRange(split) ==
  [err |-> split.err \/ parseComparator(split.opStr) = "nil" \/ Parse(split.vStr).err,
   c |-> parseComparator(split.opStr),
   v |-> Parse(split.vStr).v]

\* The comparisons of the alternatives of a range
Comparisons(ORparts) ==
  [g \in 1..Len(ORparts) |->
     [k \in 1..Len(ORparts[g]) |->
        buildVersionRange(splitComparatorVersion(ORparts[g][k]))]]

\* semver.ParseRange, for ranges without the wildcard x (expandWildcardVersion
\* returns such parts as they are) and without an empty alternative
ParseResult(split) ==
  IF split.err THEN [err |-> TRUE, comp |-> << >>]
  ELSE [err |-> \E g \in 1..Len(split.parts) : \E k \in 1..Len(split.parts[g]) :
                   Comparisons(split.parts)[g][k].err,
        comp |-> Comparisons(split.parts)]

ParseRange(s) == ParseResult(splitORParts(splitAndTrim(s)))

\* versionRange.rangeFunc
Satisfies(c, v) ==
  CASE c.c = "EQ" -> Compare(v, c.v) = 0
    [] c.c = "NE" -> Compare(v, c.v) # 0
    [] c.c = "GT" -> Compare(v, c.v) = 1
    [] c.c = "GE" -> Compare(v, c.v) >= 0
    [] c.c = "LT" -> Compare(v, c.v) = -1
    [] c.c = "LE" -> Compare(v, c.v) <= 0

\* The function ParseRange returns: one alternative holds as a whole
InRange(comp, v) ==
  \E g \in 1..Len(comp) : \A k \in 1..Len(comp[g]) : Satisfies(comp[g][k], v)

\* A major.minor version gets a patch component
Padded(v) ==
  IF Count(v, ".") = 1 THEN v \o <<".", "9", "9", "9", "9">>
  ELSE v

\* A comparison of the version as it is written
CheckVersionRange_NoPadding(v, compare) ==
  IF Parse(v).err \/ ParseRange(compare).err
  THEN [valid |-> FALSE, err |-> TRUE]
  ELSE [valid |-> InRange(ParseRange(compare).comp, Parse(v).v),
        err |-> FALSE]

CheckVersionRange(v, compare) ==
  IF Parse(Padded(v)).err \/ ParseRange(compare).err
  THEN [valid |-> FALSE, err |-> TRUE]
  ELSE [valid |-> InRange(ParseRange(compare).comp, Parse(Padded(v)).v),
        err |-> FALSE]

-----------------------------------------------------------------------------
(* Validation of the configuration and name of the image *)

\* The version of a tgf that no release produced
locallyBuilt == <<"(", "L", "o", "c", "a", "l", ")">>

\* reVersion.MatchString: digits, a dot and digits somewhere in the string
reVersion(s) ==
  \E i \in 2..(Len(s) - 1) :
    s[i] = "." /\ s[i - 1] \in Digits /\ s[i + 1] \in Digits

\* Where a match of :\d+/ ends
PortEnds(s) ==
  {j \in 3..Len(s) :
     /\ s[j] = "/"
     /\ \E k \in 1..(j - 2) :
          s[k] = ":" /\ \A d \in (k + 1)..(j - 1) : s[d] \in Digits}

\* The image without what .*:\d+/ matches: the greedy match starts with the
\* string and ends with the last port
portRemoved(s) ==
  IF PortEnds(s) = {} THEN s
  ELSE SubSeq(s, (CHOOSE j \in PortEnds(s) : \A o \in PortEnds(s) : o <= j) + 1, Len(s))

ConfigWarning(rule, subject) ==
  [kind |-> "ConfigWarning", rule |-> rule, subject |-> subject]

VersionMistmatchError(rule, subject) ==
  [kind |-> "VersionMistmatchError", rule |-> rule, subject |-> subject]

\* An error of fmt.Errorf
Errorf(rule, subject) == [kind |-> "error", rule |-> rule, subject |-> subject]

\* The suffix of an image with the separator between a version and a tag that
\* are both there
Suffix(imageVersion, imageTag) ==
  imageVersion
    \o (IF imageVersion # << >> /\ imageTag # << >> THEN tagSeparator ELSE << >>)
    \o imageTag

\* Value of an optional string, "" when there is none
Deref(p) == IF p = Nil THEN << >> ELSE p[1]

\* An image name that gets its suffix as soon as there is one
GetImageName_AnySuffix(cfg) ==
  IF Len(Suffix(Deref(cfg.ImageVersion), Deref(cfg.ImageTag))) > 0
  THEN cfg.Image \o <<":">> \o Suffix(Deref(cfg.ImageVersion), Deref(cfg.ImageTag))
  ELSE cfg.Image

GetImageName(cfg) ==
  IF Len(Suffix(Deref(cfg.ImageVersion), Deref(cfg.ImageTag))) > 1
  THEN cfg.Image \o <<":">> \o Suffix(Deref(cfg.ImageVersion), Deref(cfg.ImageTag))
  ELSE cfg.Image

\* The three checks of the image, its version and its tag
NameFindings(cfg) ==
  (IF ContainsAny(cfg.Image, {":"}) /\ ContainsAny(portRemoved(cfg.Image), {":"})
   THEN <<ConfigWarning("Image", cfg.Image)>> ELSE << >>)
    \o (IF cfg.ImageVersion # Nil /\ ContainsAny(cfg.ImageVersion[1], {":", "-"})
        THEN <<ConfigWarning("ImageVersion", cfg.ImageVersion[1])>> ELSE << >>)
    \o (IF cfg.ImageTag # Nil /\ ContainsAny(cfg.ImageTag[1], {":"})
        THEN <<ConfigWarning("ImageTag", cfg.ImageTag[1])>> ELSE << >>)

\* The check of the running tgf against the recommended versions
ToolFindings(cfg, ver) ==
  IF cfg.RecommendedTGFVersion # << >> /\ ver # locallyBuilt
  THEN IF CheckVersionRange(ver, cfg.RecommendedTGFVersion).err
       THEN <<Errorf("RecommendedTGFVersion", ver)>>
       ELSE IF ~CheckVersionRange(ver, cfg.RecommendedTGFVersion).valid
       THEN <<ConfigWarning("RecommendedTGFVersion", ver)>>
       ELSE << >>
  ELSE << >>

\* An image version that the ranges apply to
HasVersion(cfg) ==
  cfg.ImageVersion # Nil /\ cfg.ImageVersion[1] # << >> /\ reVersion(cfg.ImageVersion[1])

\* The check of the image version against the required versions; validate
\* returns after a finding of this check
RequiredFindings(cfg) ==
  IF cfg.RequiredVersionRange # << >> /\ HasVersion(cfg)
  THEN IF CheckVersionRange(cfg.ImageVersion[1], cfg.RequiredVersionRange).err
       THEN <<Errorf("RequiredVersionRange", cfg.ImageVersion[1])>>
       ELSE IF ~CheckVersionRange(cfg.ImageVersion[1], cfg.RequiredVersionRange).valid
       THEN <<VersionMistmatchError("RequiredVersionRange", GetImageName(cfg))>>
       ELSE << >>
  ELSE << >>

\* The check of the image version against the recommended versions
RecommendedFindings(cfg) ==
  IF cfg.RecommendedImageVersion # << >> /\ HasVersion(cfg)
  THEN IF CheckVersionRange(cfg.ImageVersion[1], cfg.RecommendedImageVersion).err
       THEN <<Errorf("RecommendedImageVersion", cfg.ImageVersion[1])>>
       ELSE IF ~CheckVersionRange(cfg.ImageVersion[1], cfg.RecommendedImageVersion).valid
       THEN <<ConfigWarning("RecommendedImageVersion", GetImageName(cfg))>>
       ELSE << >>
  ELSE << >>

\* A validate that goes on after a finding of the required versions
validate_EveryRule(cfg, ver) ==
  NameFindings(cfg) \o ToolFindings(cfg, ver) \o RequiredFindings(cfg)
    \o RecommendedFindings(cfg)

\* validate: the findings in the order of the checks
validate(cfg, ver) ==
  NameFindings(cfg) \o ToolFindings(cfg, ver)
    \o (IF RequiredFindings(cfg) # << >> THEN RequiredFindings(cfg)
        ELSE RecommendedFindings(cfg))

RECURSIVE ValidateVersion_MismatchFatal(_, _)
\* A loop that stops at every mismatch
ValidateVersion_MismatchFatal(findings, imageVersion) ==
  IF findings = << >> THEN TRUE
  ELSE IF Head(findings).kind = "ConfigWarning"
  THEN ValidateVersion_MismatchFatal(Tail(findings), imageVersion)
  ELSE FALSE

RECURSIVE ValidateVersion(_, _)
\* The loop of ValidateVersion over the findings; imageVersion is the version
\* of the command line, "-" when it gives none
ValidateVersion(findings, imageVersion) ==
  IF findings = << >> THEN TRUE
  ELSE IF Head(findings).kind = "ConfigWarning"
  THEN ValidateVersion(Tail(findings), imageVersion)
  ELSE IF Head(findings).kind = "VersionMistmatchError"
  THEN IF imageVersion = <<"-">> THEN FALSE
       ELSE ValidateVersion(Tail(findings), imageVersion)
  ELSE FALSE

\* A call of ValidateVersion on the configuration of the process
CallValidateVersion ==
  /\ pc = "configured"
  /\ \E findings \in {validate(config, version)} :
       /\ errors' = findings
       /\ valid' = Ptr(ValidateVersion(findings, app.ImageVersion))
  /\ pc' = "validated"
  /\ UNCHANGED <<app, osEnv, cloud, cwd, files, cachedAWSConfigExistCheck,
                 cachedAwsConfig, config, configsData, loadCalls, version, imageName>>
  /\ UNCHANGED <<tagVars, aliasVars, sessionVars, updateVars, fileVars, rangeVars>>

\* A call of GetImageName on the configuration of the process
CallGetImageName ==
  /\ pc \in {"configured", "validated"}
  /\ imageName = Nil
  /\ imageName' = Ptr(GetImageName(config))
  /\ UNCHANGED <<pc, app, osEnv, cloud, cwd, files, cachedAWSConfigExistCheck,
                 cachedAwsConfig, config, configsData, loadCalls, version, errors,
                 valid>>
  /\ UNCHANGED <<tagVars, aliasVars, sessionVars, updateVars, fileVars, rangeVars>>

-----------------------------------------------------------------------------
(* The tag of a build (TGFConfigBuild.hash, Dir, GetTag) *)

\* The name of the Dockerfile that tgf writes in the folder of a build, and the
\* file names that contain it
dockerfilePattern == "TGFDockerfile"

DockerfileNames == {dockerfilePattern, dockerfilePattern \o ".old"}

\* strings.Contains(path, dockerfilePattern), the pattern holding no separator
ContainsDockerfilePattern(path) == \E i \in 1..Len(path) : path[i] \in DockerfileNames

\* The name of a configuration file is absolute, the name that stands for a
\* remote file or for the parameter store is relative
IsAbs(name) == name # << >> /\ Last(name) \in {configFile, userConfigFile}

\* filepath.Base(filepath.Dir(source))
BaseOfDir(source) ==
  IF Len(source) >= 2 THEN source[Len(source) - 1]
  ELSE IF IsAbs(source) THEN "/"
  ELSE "."

\* The characters of the names of folders
Characters ==
  [d1 |-> <<"d", "1">>, d2 |-> <<"d", "2">>, d3 |-> <<"d", "3">>, d4 |-> <<"d", "4">>,
   d5 |-> <<"d", "5">>, AWS |-> <<"A", "W", "S">>] @@ ("/" :> <<"/">>) @@ ("." :> <<".">>)

\* TGFConfigBuild.Dir: the folder of the source, the folder of the build when
\* it is absolute (its first component is "/"), else the folder of the build
\* below the one of the source
Dir(cb, wd) ==
  IF cb.Folder = << >> THEN Front(cb.source)
  ELSE IF cb.Folder[1] = "/" THEN Tail(cb.Folder)
  ELSE (IF IsAbs(cb.source) THEN << >> ELSE wd) \o Front(cb.source) \o cb.Folder

\* A path at or below a folder
Under(path, folder) ==
  Len(path) >= Len(folder) /\ SubSeq(path, 1, Len(folder)) = folder

\* fmt.Sprintf("%v", info.ModTime()): no text of a time is the start of another
FormatTime(t) == "T" \o ToString(t) \o ";"

RECURSIVE WriteTimes(_, _)
\* What the walk writes to the hash for the entries it meets, in their order
WriteTimes(entries, excluded) ==
  IF entries = << >> THEN ""
  ELSE (IF Head(entries).isDir \/ Head(entries).path \in excluded THEN ""
        ELSE FormatTime(Head(entries).modTime))
         \o WriteTimes(Tail(entries), excluded)

\* filepath.Walk: the entries at or below the folder, in lexical order
Walk(folder, tr) == SelectSeq(tr, LAMBDA entry : Under(entry.path, folder))

\* A hash that also reads the time of the Dockerfile
hash_WithDockerfile(cb, wd, tr) ==
  BaseOfDir(cb.source) \o cb.Instructions
    \o (IF cb.Folder # << >> THEN WriteTimes(Walk(Dir(cb, wd), tr), {}) ELSE "")

\* TGFConfigBuild.hash: what is written to the MD5 hash, of which the result
\* is the sum; two sums are the same when what was written is the same
hash(cb, wd, tr) ==
  BaseOfDir(cb.source) \o cb.Instructions
    \o (IF cb.Folder # << >>
        THEN WriteTimes(Walk(Dir(cb, wd), tr),
                        {tr[i].path : i \in {k \in 1..Len(tr) :
                                               ContainsDockerfilePattern(tr[k].path)}})
        ELSE "")

\* The characters that a tag keeps
TagCharacters == AlphaNum \cup {".", "_"}

\* tagRegex.ReplaceAllString(tag, "")
Sanitized(tag) == SelectSeq(tag, LAMBDA c : c \in TagCharacters)

\* A GetTag that returns the tag of the build as it is written
GetTag_Unsanitized(cb, wd, tr) ==
  IF cb.Tag # << >> THEN [text |-> cb.Tag, sum |-> Nil]
  ELSE [text |-> Characters[BaseOfDir(cb.source)] \o <<"-">>,
        sum |-> Ptr(hash(cb, wd, tr))]

\* GetTag: the text of the tag, followed by the hexadecimal digits of the sum
\* of `sum` when the build has no tag of its own
GetTag(cb, wd, tr) ==
  IF cb.Tag # << >> THEN [text |-> Sanitized(cb.Tag), sum |-> Nil]
  ELSE [text |-> Sanitized(Characters[BaseOfDir(cb.source)] \o <<"-">>),
        sum |-> Ptr(hash(cb, wd, tr))]

\* The calls of GetTag that a run makes
MaxTags == 2

\* The latest time of the clock, the files of a run being first of time 1
MaxTime == 2

\* The latest time of last modification of the tree
Latest(tr) ==
  CHOOSE t \in {tr[i].modTime : i \in 1..Len(tr)} :
    \A i \in 1..Len(tr) : tr[i].modTime <= t

\* A call of GetTag on the build
CallGetTag ==
  /\ pc = "build"
  /\ Len(tagged) < MaxTags
  /\ tagged' = Append(tagged, [tree |-> tree, tag |-> GetTag(buildConfig, cwd, tree)])
  /\ UNCHANGED <<pc, app, osEnv, cloud, cwd, files, cachedAWSConfigExistCheck,
                 cachedAwsConfig, config, configsData, loadCalls, version, errors,
                 valid, imageName, buildConfig, tree, aliasVars, sessionVars, updateVars, fileVars, rangeVars>>

\* A file is touched: its time of last modification becomes the time of the
\* clock, later than every other, and what it holds stays
Touch ==
  /\ pc = "build"
  /\ Latest(tree) < MaxTime
  /\ \E i \in 1..Len(tree) :
       /\ ~tree[i].isDir
       /\ tree' = [tree EXCEPT ![i].modTime = Latest(tree) + 1]
  /\ UNCHANGED <<pc, app, osEnv, cloud, cwd, files, cachedAWSConfigExistCheck,
                 cachedAwsConfig, config, configsData, loadCalls, version, errors,
                 valid, imageName, buildConfig, tagged, aliasVars, sessionVars, updateVars, fileVars, rangeVars>>

-----------------------------------------------------------------------------
(* Aliases (parseAliases) *)

\* The character ` (a string of this notation cannot hold it)
Backquote == "backquote"

\* What String.Protect takes for the start and the end of a quoted string
Quotes == {"\"", Backquote}

\* unicode.IsSpace on the characters of the replacements
Spaces == {" ", "\t", "\n"}

\* What stands for the n-th quoted string of a text while the text is split
Protected(n) == "protected" \o ToString(n)

RECURSIVE protectLoop(_, _, _)
\* The loop of String.Protect on a text without a backslash
protectLoop(s, result, array) ==
  IF IndexFunc(s, Quotes) = 0 THEN [text |-> result \o s, array |-> array]
  ELSE IF IndexRune(SubSeq(s, IndexFunc(s, Quotes) + 1, Len(s)), s[IndexFunc(s, Quotes)]) = 0
  THEN [text |-> result \o s, array |-> array]
  ELSE protectLoop(
         SubSeq(s, IndexFunc(s, Quotes)
                     + IndexRune(SubSeq(s, IndexFunc(s, Quotes) + 1, Len(s)),
                                 s[IndexFunc(s, Quotes)]) + 1, Len(s)),
         result \o SubSeq(s, 1, IndexFunc(s, Quotes) - 1) \o <<Protected(Len(array))>>,
         Append(array,
                SubSeq(s, IndexFunc(s, Quotes),
                       IndexFunc(s, Quotes)
                         + IndexRune(SubSeq(s, IndexFunc(s, Quotes) + 1, Len(s)),
                                     s[IndexFunc(s, Quotes)]))))

\* String.Protect: the text with every string between quotes or backticks
\* replaced, and the strings replaced
Protect(s) == protectLoop(s, << >>, << >>)

RECURSIVE Fields(_)
\* strings.Fields: the words between the spaces
Fields(s) ==
  IF s = << >> THEN << >>
  ELSE IF s[1] \in Spaces THEN Fields(Tail(s))
  ELSE IF IndexFunc(s, Spaces) = 0 THEN <<s>>
  ELSE <<SubSeq(s, 1, IndexFunc(s, Spaces) - 1)>>
         \o Fields(SubSeq(s, IndexFunc(s, Spaces), Len(s)))

RECURSIVE RestoreProtected(_, _)
\* String.RestoreProtected: the replaced strings are put back
RestoreProtected(s, array) ==
  IF s = << >> THEN << >>
  ELSE (IF \E n \in 1..Len(array) : s[1] = Protected(n - 1)
        THEN array[CHOOSE n \in 1..Len(array) : s[1] = Protected(n - 1)]
        ELSE <<s[1]>>)
         \o RestoreProtected(Tail(s), array)

\* ReplaceN(`="`, "=", 1): the first =" loses its quote
ReplaceFirstQuotedValue(s) ==
  IF \E i \in 1..(Len(s) - 1) : s[i] = "=" /\ s[i + 1] = "\""
  THEN [k \in 1..(Len(s) - 1) |->
          IF k <= (CHOOSE i \in 1..(Len(s) - 1) :
                     /\ s[i] = "=" /\ s[i + 1] = "\""
                     /\ \A j \in 1..(i - 1) : ~(s[j] = "=" /\ s[j + 1] = "\""))
          THEN s[k] ELSE s[k + 1]]
  ELSE s

RECURSIVE Trim(_, _)
\* strings.Trim
Trim(s, c) ==
  IF s = << >> THEN s
  ELSE IF s[1] = c THEN Trim(Tail(s), c)
  ELSE IF Last(s) = c THEN Trim(Front(s), c)
  ELSE s

\* The arguments that a replacement stands for
Replacement(protected) ==
  [i \in 1..Len(Fields(protected.text)) |->
     IF protected.array = << >> THEN Fields(protected.text)[i]
     ELSE Trim(ReplaceFirstQuotedValue(
                 RestoreProtected(Fields(protected.text)[i], protected.array)), "\"")]

RECURSIVE parseAliases_WithoutRest(_, _, _)
\* An expansion that loses the arguments after the first
parseAliases_WithoutRest(aliases, args, expanding) ==
  IF args = << >> \/ Lookup(aliases, args[1], << >>) = << >>
  THEN [diverges |-> FALSE, expansions |-> 0, args |-> args]
  ELSE IF args[1] \in expanding
  THEN [diverges |-> TRUE, expansions |-> 0, args |-> << >>]
  ELSE LET inner == parseAliases_WithoutRest(aliases,
                                             Replacement(Protect(aliases[args[1]])),
                                             expanding \cup {args[1]})
       IN  [diverges |-> inner.diverges,
            expansions |-> inner.expansions + 1,
            args |-> inner.args]

\* An expansion that does not expand the replacement in turn
parseAliases_SingleExpansion(aliases, args, expanding) ==
  IF args = << >> \/ Lookup(aliases, args[1], << >>) = << >>
  THEN [diverges |-> FALSE, expansions |-> 0, args |-> args]
  ELSE [diverges |-> FALSE,
        expansions |-> 1,
        args |-> Replacement(Protect(aliases[args[1]])) \o Tail(args)]

RECURSIVE parseAliases(_, _, _)
\* parseAliases, `expanding` being the aliases that the calls in progress
\* replace: the recursion does not end when it meets one of them again.
\* `expansions` counts the replacements made before it returned.
parseAliases(aliases, args, expanding) ==
  IF args = << >> \/ Lookup(aliases, args[1], << >>) = << >>
  THEN [diverges |-> FALSE, expansions |-> 0, args |-> args]
  ELSE IF args[1] \in expanding
  THEN [diverges |-> TRUE, expansions |-> 0, args |-> << >>]
  ELSE LET inner == parseAliases(aliases, Replacement(Protect(aliases[args[1]])),
                                 expanding \cup {args[1]})
       IN  [diverges |-> inner.diverges,
            expansions |-> inner.expansions + 1,
            args |-> inner.args \o Tail(args)]

\* A call of parseAliases on the arguments of the command line
CallParseAliases ==
  /\ pc = "arguments"
  /\ expanded = Nil
  /\ expanded' = Ptr(parseAliases(config.Aliases, arguments, {}))
  /\ UNCHANGED <<pc, app, osEnv, cloud, cwd, files, cachedAWSConfigExistCheck,
                 cachedAwsConfig, config, configsData, loadCalls, version, errors,
                 valid, imageName, tagVars, arguments, sessionVars, updateVars, fileVars, rangeVars>>

-----------------------------------------------------------------------------
(* Calls of the gate *)

\* The number of calls of awsConfigExist that are followed
MaxGateCalls == 2

\* A call of awsConfigExist; the deferred function memoizes what it returns
CallAwsConfigExist ==
  /\ pc = "gate"
  /\ Len(gates) < MaxGateCalls
  /\ \E result \in {awsConfigExist(cachedAWSConfigExistCheck, app, osEnv, cloud)} :
       /\ cachedAWSConfigExistCheck' = Ptr(result)
       /\ gates' = Append(gates, result)
  /\ UNCHANGED <<pc, app, osEnv, cloud, cwd, files, cachedAwsConfig, config, configsData,
                 loadCalls, version, errors, valid, imageName, tagVars, aliasVars,
                 served, ssmReads, updateVars, fileVars, rangeVars>>

\* What the gate looks at changes: the flag of the command line, a variable
\* of the environment, the aws CLI on the search path, the folder ~/.aws
ChangeContext ==
  /\ pc = "gate"
  /\ \E useAWS, awsCli, awsFolder \in BOOLEAN :
       \E profile \in {"", "dev"}, file \in {"", "/etc/aws"}, override \in {"", "true"} :
         /\ app' = [app EXCEPT !.UseAWS = useAWS]
         /\ osEnv' = [osEnv EXCEPT !["AWS_PROFILE"] = profile,
                                   !["AWS_CONFIG_FILE"] = file,
                                   !["TGF_USE_AWS_CONFIG"] = override]
         /\ cloud' = [cloud EXCEPT !.awsCli = awsCli, !.awsFolder = awsFolder]
  /\ UNCHANGED <<pc, cwd, files, cachedAWSConfigExistCheck, cachedAwsConfig, config,
                 configsData, loadCalls, version, errors, valid, imageName, tagVars,
                 aliasVars, sessionVars, updateVars, fileVars, rangeVars>>

-----------------------------------------------------------------------------
(* Updates (ShouldUpdate, DoUpdate) *)

\* A ShouldUpdate for which an update is due a full delay after the delay
ShouldUpdate_AfterTwoDelays(a, cfg, v, elapsed) ==
  IF a.AutoUpdateSet
  THEN (IF a.AutoUpdate
        THEN [due |-> TRUE,
              version |-> IF v = locallyBuilt THEN <<"0", ".", "0", ".", "0">> ELSE v]
        ELSE [due |-> FALSE, version |-> v])
  ELSE IF ~cfg.AutoUpdate THEN [due |-> FALSE, version |-> v]
  ELSE IF elapsed < 2 * cfg.AutoUpdateDelay THEN [due |-> FALSE, version |-> v]
  ELSE IF v = locallyBuilt THEN [due |-> FALSE, version |-> v]
  ELSE [due |-> TRUE, version |-> v]

\* A ShouldUpdate that asks the configuration before the command line
ShouldUpdate_ConfigurationFirst(a, cfg, v, elapsed) ==
  IF ~cfg.AutoUpdate THEN [due |-> FALSE, version |-> v]
  ELSE IF a.AutoUpdateSet
  THEN (IF a.AutoUpdate
        THEN [due |-> TRUE,
              version |-> IF v = locallyBuilt THEN <<"0", ".", "0", ".", "0">> ELSE v]
        ELSE [due |-> FALSE, version |-> v])
  ELSE IF elapsed < cfg.AutoUpdateDelay THEN [due |-> FALSE, version |-> v]
  ELSE IF v = locallyBuilt THEN [due |-> FALSE, version |-> v]
  ELSE [due |-> TRUE, version |-> v]

\* ShouldUpdate: [due, version], `elapsed` being what GetLastRefresh returns;
\* a forced update of a local build makes its version 0.0.0
ShouldUpdate(a, cfg, v, elapsed) ==
  IF a.AutoUpdateSet
  THEN (IF a.AutoUpdate
        THEN [due |-> TRUE,
              version |-> IF v = locallyBuilt THEN <<"0", ".", "0", ".", "0">> ELSE v]
        ELSE [due |-> FALSE, version |-> v])
  ELSE IF ~cfg.AutoUpdate THEN [due |-> FALSE, version |-> v]
  ELSE IF elapsed < cfg.AutoUpdateDelay THEN [due |-> FALSE, version |-> v]
  ELSE IF v = locallyBuilt THEN [due |-> FALSE, version |-> v]
  ELSE [due |-> TRUE, version |-> v]

\* An error: the step that failed and, when the executable could not be put
\* back, the failure of the rollback
Failure(cause, rollback) == Ptr([cause |-> cause, rollback |-> rollback])

\* selfupdate.Apply: the executable is replaced ("applied"); or the new one
\* is rejected before the executable is touched ("rejected"); or the
\* executable is moved to OldSavePath, the new one cannot take its place, and
\* the executable is moved back ("restored") or cannot be ("lost")
Apply(outcome, bin) ==
  IF outcome = "applied" THEN [err |-> Nil, binary |-> "new"]
  ELSE IF outcome = "rejected" THEN [err |-> Failure("checksum", Nil), binary |-> bin]
  ELSE IF outcome = "restored" THEN [err |-> Failure("rename", Nil), binary |-> bin]
  ELSE [err |-> Failure("rename", Ptr("rollback")), binary |-> "none"]

\* selfupdate.RollbackError: the failure of the rollback that an error of
\* Apply carries, if any
RollbackError(err) == IF err = Nil THEN Nil ELSE err[1].rollback

\* A DoUpdate that returns the error of the rollback
DoUpdate_ReturnsRollbackError(rel, bin) ==
  IF ~rel.tempFile
  THEN [err |-> Failure("tempfile", Nil), binary |-> bin, logged |-> << >>]
  ELSE IF ~rel.download
  THEN [err |-> Failure("download", Nil), binary |-> bin, logged |-> << >>]
  ELSE IF Apply(rel.apply, bin).err = Nil
  THEN [err |-> Nil, binary |-> Apply(rel.apply, bin).binary, logged |-> << >>]
  ELSE IF RollbackError(Apply(rel.apply, bin).err) = Nil
  THEN [err |-> Nil, binary |-> Apply(rel.apply, bin).binary, logged |-> << >>]
  ELSE [err |-> Failure(RollbackError(Apply(rel.apply, bin).err)[1], Nil),
        binary |-> Apply(rel.apply, bin).binary,
        logged |-> <<RollbackError(Apply(rel.apply, bin).err)[1]>>]

\* DoUpdate: [err, binary, logged]; the error of Apply is returned, and the
\* failure of the rollback that it carries is logged
DoUpdate(rel, bin) ==
  IF ~rel.tempFile
  THEN [err |-> Failure("tempfile", Nil), binary |-> bin, logged |-> << >>]
  ELSE IF ~rel.download
  THEN [err |-> Failure("download", Nil), binary |-> bin, logged |-> << >>]
  ELSE IF Apply(rel.apply, bin).err = Nil
  THEN [err |-> Nil, binary |-> Apply(rel.apply, bin).binary, logged |-> << >>]
  ELSE IF RollbackError(Apply(rel.apply, bin).err) = Nil
  THEN [err |-> Apply(rel.apply, bin).err, binary |-> Apply(rel.apply, bin).binary,
        logged |-> << >>]
  ELSE [err |-> Apply(rel.apply, bin).err, binary |-> Apply(rel.apply, bin).binary,
        logged |-> <<RollbackError(Apply(rel.apply, bin).err)[1]>>]

\* A GetUpdateVersion that asks GitHub before it looks at the configuration
GetUpdateVersion_AsksFirst(cfg, api) ==
  IF ~api.ok THEN [version |-> "", err |-> TRUE, requests |-> 1]
  ELSE IF cfg.UpdateVersion # "" THEN [version |-> cfg.UpdateVersion, err |-> FALSE,
                                       requests |-> 1]
  ELSE IF api.tag = << >> THEN [version |-> "", err |-> TRUE, requests |-> 1]
  ELSE [version |-> Tail(api.tag), err |-> FALSE, requests |-> 1]

\* GetUpdateVersion: [version, err, requests], `api` being what the request
\* for the latest release of GitHub gives: whether http.Get succeeds and the
\* tag_name of the answer, empty when the answer has none
GetUpdateVersion(cfg, api) ==
  IF cfg.UpdateVersion # "" THEN [version |-> cfg.UpdateVersion, err |-> FALSE,
                                  requests |-> 0]
  ELSE IF ~api.ok THEN [version |-> "", err |-> TRUE, requests |-> 1]
  ELSE IF api.tag = << >> THEN [version |-> "", err |-> TRUE, requests |-> 1]
  ELSE [version |-> Tail(api.tag), err |-> FALSE, requests |-> 1]

\* A call of GetUpdateVersion
CallGetUpdateVersion ==
  /\ pc = "update"
  /\ latest = Nil
  /\ latest' = Ptr(GetUpdateVersion(config, release.api))
  /\ UNCHANGED <<pc, app, osEnv, cloud, cwd, files, cachedAWSConfigExistCheck,
                 cachedAwsConfig, config, configsData, loadCalls, version, errors, valid,
                 imageName, tagVars, aliasVars, sessionVars, sinceRefresh, due, release,
                 binary, updated, fileVars, rangeVars>>

\* A call of ShouldUpdate
CallShouldUpdate ==
  /\ pc = "update"
  /\ due = Nil
  /\ \E r \in {ShouldUpdate(app, config, version, sinceRefresh)} :
       /\ due' = Ptr([result |-> r.due, version |-> version])
       /\ version' = r.version
  /\ UNCHANGED <<pc, app, osEnv, cloud, cwd, files, cachedAWSConfigExistCheck,
                 cachedAwsConfig, config, configsData, loadCalls, errors, valid,
                 imageName, tagVars, aliasVars, sessionVars, sinceRefresh, release,
                 binary, updated, latest, fileVars, rangeVars>>

\* A call of DoUpdate
CallDoUpdate ==
  /\ pc = "update"
  /\ updated = Nil
  /\ \E r \in {DoUpdate(release, binary)} :
       /\ binary' = r.binary
       /\ updated' = Ptr([err |-> r.err, logged |-> r.logged])
  /\ UNCHANGED <<pc, app, osEnv, cloud, cwd, files, cachedAWSConfigExistCheck,
                 cachedAwsConfig, config, configsData, loadCalls, version, errors, valid,
                 imageName, tagVars, aliasVars, sessionVars, sinceRefresh, due, release,
                 latest, fileVars, rangeVars>>

-----------------------------------------------------------------------------
(* Bounds and inputs *)

\* The deepest working directory: MaxDepth folders below the root
MaxDepth == 2

Folders == <<"d1", "d2", "d3", "d4", "d5">>

WorkDir(depth) == SubSeq(Folders, 1, depth)

Pick(values, tag) == values[((tag - 1) % Len(values)) + 1]

\* The value that the source numbered `tag` gives to a key
ValueOf(key, tag) ==
  CASE key = "Image" -> <<"i", "m", "g", ToString(tag % 10)>>
    [] key = "ImageVersion" -> <<"1", ".", ToString(tag % 10)>>
    [] key = "LogLevel" -> Pick(<<"debug", "info", "warning", "error">>, tag)
    [] key = "EntryPoint" -> Pick(<<"terraform", "sh", "bash", "tflint">>, tag)
    [] key = "Refresh" -> 10 * tag
    [] key = "AutoUpdateDelay" -> (2 + tag) * Hour
    [] key = "AutoUpdate" -> tag % 2 = 0
    [] key = "ImageBuild" -> "RUN build" \o ToString(tag)
    [] key = "RunBefore" -> "before" \o ToString(tag)
    [] key = "RunAfter" -> "after" \o ToString(tag)

\* The text of the source numbered `tag` that defines `keys`
TextOf(keys, tag) == Text([k \in keys |-> ValueOf(k, tag)])

ListKeys == {"ImageBuild", "RunBefore", "RunAfter"}

ScalarKeys == {"Image", "ImageVersion", "LogLevel", "EntryPoint", "Refresh",
               "AutoUpdateDelay", "AutoUpdate"}

\* The key sets of the texts of the local files
KeySets ==
  (SUBSET {"Image", "RunBefore"})
    \cup {{"ImageBuild"}, {"RunAfter"}, ListKeys, ListKeys \cup {"Image"}}
    \cup {ScalarKeys, {"LogLevel", "EntryPoint"},
          {"ImageVersion", "Refresh", "AutoUpdateDelay", "AutoUpdate"}}

\* What a .tgf.config is: missing, unreadable, unparsable or a text
FileStates ==
  {[kind |-> k, keys |-> {}] : k \in {"absent", "unreadable", "garbage"}}
    \cup {[kind |-> "text", keys |-> K] : K \in KeySets}

FileOf(state, tag) ==
  [readable |-> state.kind # "unreadable",
   raw |-> IF state.kind = "text" THEN TextOf(state.keys, tag) ELSE Garbage]

\* A file system with a .tgf.config in the folders of the working directory
\* for which `choice` says so
ProjectFiles(dir, choice) ==
  LET present == {l \in 0..Len(dir) : choice[l].kind # "absent"}
  IN  [p \in {Append(SubSeq(dir, 1, l), configFile) : l \in present} |->
         FileOf(choice[Len(p) - 1], Len(p))]

NoEnvironment ==
  [k \in {"AWS_PROFILE", "AWS_DEFAULT_PROFILE", "AWS_ACCESS_KEY_ID",
          "AWS_SECRET_ACCESS_KEY", "AWS_SESSION_TOKEN", "AWS_REGION",
          "AWS_CONFIG_FILE", "TGF_USE_AWS_CONFIG"} |-> ""]

NoRemote ==
  [p \in {remoteDefaultConfigPath, "extra"} |-> [fetched |-> FALSE, raw |-> EmptyText]]

NoCloud ==
  [awsCli |-> FALSE, awsFolder |-> FALSE, load1 |-> FALSE, retrieve1 |-> FALSE,
   short |-> FALSE, load2 |-> FALSE, retrieve2 |-> FALSE, identity |-> "error",
   getRole |-> FALSE, maxSessionDuration |-> 1 * Hour, ssmOK |-> <<FALSE, FALSE>>,
   ssm |-> EmptyMap, remote |-> NoRemote]

DefaultApp ==
  [UseAWS |-> TRUE, ConfigLocation |-> "", ConfigFiles |-> << >>,
   PsPath |-> "/default/tgf", ImageVersion |-> <<"-">>, DisableUserConfig |-> FALSE,
   ConfigDump |-> FALSE, AwsProfile |-> "", AutoUpdateSet |-> FALSE,
   AutoUpdate |-> FALSE]

\* No build is looked at
NoBuild ==
  /\ buildConfig = [Instructions |-> "", Folder |-> << >>, Tag |-> << >>, source |-> << >>]
  /\ tree = << >>
  /\ tagged = << >>

\* No command line is looked at
NoArguments ==
  /\ arguments = << >>
  /\ expanded = Nil

\* Neither the gate nor the session is called apart from InitConfig
NoCalls ==
  /\ gates = << >>
  /\ served = << >>
  /\ ssmReads = 0

\* No update is looked at
NoUpdate ==
  /\ sinceRefresh = 0
  /\ due = Nil
  /\ release = [tempFile |-> TRUE, download |-> TRUE, apply |-> "applied",
                api |-> [ok |-> FALSE, tag |-> << >>]]
  /\ binary = "previous"
  /\ updated = Nil
  /\ latest = Nil

\* No search for configuration files apart from InitConfig
NoSearch == foundFiles = Nil

\* No comparison apart from those of validate
NoComparison == compared = Nil /\ inRange = Nil

\* What every run starts with
InitProcess ==
  /\ pc = "start"
  /\ cachedAWSConfigExistCheck = Nil
  /\ cachedAwsConfig = Nil
  /\ config = ZeroConfig
  /\ configsData = << >>
  /\ loadCalls = << >>
  /\ errors = << >>
  /\ valid = Nil
  /\ imageName = Nil
  /\ NoBuild
  /\ NoArguments
  /\ NoCalls
  /\ NoUpdate
  /\ NoSearch
  /\ NoComparison

\* Runs outside of any cloud context: .tgf.config files in the working
\* directory and its parents
InitLocal ==
  /\ app = DefaultApp
  /\ osEnv = NoEnvironment
  /\ cloud = NoCloud
  /\ cwd = WorkDir(MaxDepth)
  /\ \E choice \in [0..MaxDepth -> FileStates] : files = ProjectFiles(cwd, choice)
  /\ version = <<"1", ".", "2", "0", ".", "0">>
  /\ InitProcess

\* What the credential chain and the role answer: a long-lived session, no
\* session, a short-lived session that can be extended, one that cannot
CredentialOutcomes ==
  {[NoCloud EXCEPT !.load1 = TRUE, !.retrieve1 = TRUE],
   NoCloud,
   [NoCloud EXCEPT !.load1 = TRUE, !.retrieve1 = TRUE, !.short = TRUE,
                   !.load2 = TRUE, !.retrieve2 = TRUE,
                   !.identity = "assumed-role", !.getRole = TRUE,
                   !.maxSessionDuration = 4 * Hour],
   [NoCloud EXCEPT !.load1 = TRUE, !.retrieve1 = TRUE, !.short = TRUE,
                   !.identity = "user"]}

RemoteLocation == "s3://bucket/tgf"

CloudKeys == ListKeys \cup {"Image"}

\* The parameters under app.PsPath
ParameterStores ==
  LET keys == TextOf(CloudKeys, 3).set
      location == [k \in {remoteConfigLocationParameter} |-> RemoteLocation]
      paths == [k \in {remoteConfigPathsParameter} |-> <<"extra", remoteDefaultConfigPath>>]
  IN  {EmptyMap, keys, location, location @@ paths @@ keys}

\* What fetching a path of the remote location gives
RemoteFiles(tag) ==
  {[fetched |-> FALSE, raw |-> EmptyText],
   [fetched |-> TRUE, raw |-> EmptyText],
   [fetched |-> TRUE, raw |-> Garbage],
   [fetched |-> TRUE, raw |-> TextOf(CloudKeys, tag)]}

\* The configuration files of a working directory one folder below the root
CloudFileSystems ==
  LET candidates == <<<<configFile>>, <<"d1", userConfigFile>>, <<"d1", configFile>>>>
  IN  {[p \in {candidates[i] : i \in present} |->
          [readable |-> TRUE,
           raw |-> TextOf(CloudKeys, 3 + CHOOSE i \in present : candidates[i] = p)]] :
        present \in SUBSET (1..3)}

\* Runs in a cloud context: a remote location, the parameter store and local
\* files
InitCloud ==
  /\ \E useAWS, noUser \in BOOLEAN :
       \E location \in {"", RemoteLocation} :
         \E paths \in IF location = "" THEN {<< >>}
                      ELSE {<< >>, <<remoteDefaultConfigPath, "extra">>} :
           app = [DefaultApp EXCEPT !.UseAWS = useAWS, !.DisableUserConfig = noUser,
                                    !.ConfigLocation = location, !.ConfigFiles = paths]
  /\ osEnv = NoEnvironment
  /\ \E outcome \in CredentialOutcomes :
       \E ssmOK \in {<<TRUE, TRUE>>, <<TRUE, FALSE>>} :
         \E ssm \in ParameterStores :
           \E first \in RemoteFiles(1) \ {[fetched |-> TRUE, raw |-> EmptyText]} :
             \E second \in RemoteFiles(2) \ {[fetched |-> TRUE, raw |-> Garbage]} :
               cloud = [outcome EXCEPT
                          !.awsCli = TRUE, !.ssmOK = ssmOK, !.ssm = ssm,
                          !.remote = (remoteDefaultConfigPath :> first) @@ ("extra" :> second)]
  /\ cwd = WorkDir(1)
  /\ files \in CloudFileSystems
  /\ version = <<"1", ".", "2", "0", ".", "0">>
  /\ InitProcess

Init == InitLocal \/ InitCloud

Next == InitConfig

Spec == Init /\ [][Next]_vars

-----------------------------------------------------------------------------
(* Inputs of the validation: one .tgf.config in the working directory *)

Foo == <<"f", "o", "o">>

Images == {Foo, <<"f", "o", "o", ":", "1">>, <<"r", ":", "5", "/", "f", "o", "o">>}

\* No version, "", 1, 1.0, 1.1, 1.2, 1.2.3, 2.0.0, 1.2.0-rc, 1.2-k8s
ImageVersions ==
  {Nil, Ptr(<< >>), Ptr(<<"1">>), Ptr(<<"1", ".", "0">>), Ptr(<<"1", ".", "1">>),
   Ptr(<<"1", ".", "2">>), Ptr(<<"1", ".", "2", ".", "3">>),
   Ptr(<<"2", ".", "0", ".", "0">>),
   Ptr(<<"1", ".", "2", ".", "0", "-", "r", "c">>),
   Ptr(<<"1", ".", "2", "-", "k", "8", "s">>)}

\* No tag, "", k, k8s, a:b
ImageTags ==
  {Nil, Ptr(<< >>), Ptr(<<"k">>), Ptr(<<"k", "8", "s">>), Ptr(<<"a", ":", "b">>)}

\* >=1.2.0 <2.0.0
FromOneTwoBelowTwo ==
  <<">", "=", "1", ".", "2", ".", "0", " ", "<", "2", ".", "0", ".", "0">>

NotARange == <<"n", "o", "t", "-", "a", "-", "r", "a", "n", "g", "e">>

\* <1.2.0 || >=2.0.0
BelowOneTwoOrFromTwo ==
  <<"<", "1", ".", "2", ".", "0", " ", "|", "|", " ", ">", "=", "2", ".", "0", ".", "0">>

\* >=2.0.0
FromTwo == <<">", "=", "2", ".", "0", ".", "0">>

\* >= 1.21.0
FromOneTwentyOne == <<">", "=", " ", "1", ".", "2", "1", ".", "0">>

RequiredRanges == {Nil, Ptr(FromOneTwoBelowTwo), Ptr(NotARange), Ptr(BelowOneTwoOrFromTwo)}

RecommendedImageRanges == {Nil, Ptr(FromTwo), Ptr(NotARange)}

RecommendedToolRanges == {Nil, Ptr(FromOneTwentyOne), Ptr(<<"1", ".", "2", "0", ".", "0">>),
                          Ptr(NotARange)}

ToolVersions == {<<"1", ".", "2", "0", ".", "0">>, locallyBuilt}

\* The text that defines the keys for which there is a value
Settings(values) ==
  Text([k \in {key \in DOMAIN values : values[key] # Nil} |-> values[k][1]])

\* The configurations in which the image, its version and its tag vary
NamedImages ==
  {[Image |-> Ptr(i), ImageVersion |-> v, ImageTag |-> t, RequiredVersionRange |-> r,
    RecommendedImageVersion |-> Nil, RecommendedTGFVersion |-> Nil] :
      i \in Images, v \in ImageVersions, t \in ImageTags,
      r \in {Nil, Ptr(FromOneTwoBelowTwo)}}

\* The configurations in which the version and the ranges vary
RangedImages ==
  {[Image |-> Ptr(Foo), ImageVersion |-> v, ImageTag |-> Nil, RequiredVersionRange |-> r,
    RecommendedImageVersion |-> ri, RecommendedTGFVersion |-> rt] :
      v \in ImageVersions, r \in RequiredRanges, ri \in RecommendedImageRanges,
      rt \in RecommendedToolRanges}

\* A run outside of any cloud context, with or without an image version on the
\* command line
InitValidate ==
  /\ \E forced \in {<<"-">>, <<"1", ".", "1">>} :
       app = [DefaultApp EXCEPT !.UseAWS = FALSE, !.ImageVersion = forced]
  /\ osEnv = NoEnvironment
  /\ cloud = NoCloud
  /\ cwd = WorkDir(MaxDepth)
  /\ \E values \in NamedImages \cup RangedImages :
       files = [p \in {Append(cwd, configFile)} |->
                  [readable |-> TRUE, raw |-> Settings(values)]]
  /\ version \in ToolVersions
  /\ InitProcess

NextValidate == InitConfig \/ CallValidateVersion \/ CallGetImageName

SpecValidate == InitValidate /\ [][NextValidate]_vars

-----------------------------------------------------------------------------
(* The operations on a resolved configuration *)

\* Nothing of a run but its configuration: no file, no cloud, no call made
NoRun ==
  /\ app = DefaultApp
  /\ osEnv = NoEnvironment
  /\ cloud = NoCloud
  /\ cwd = WorkDir(MaxDepth)
  /\ files = [p \in {} |-> [readable |-> TRUE, raw |-> EmptyText]]
  /\ version = <<"1", ".", "2", "0", ".", "0">>
  /\ cachedAWSConfigExistCheck = Nil
  /\ cachedAwsConfig = Nil
  /\ configsData = << >>
  /\ loadCalls = << >>
  /\ errors = << >>
  /\ valid = Nil
  /\ imageName = Nil

-----------------------------------------------------------------------------
(* Inputs of the build tags: a build of the .tgf.config of the working
   directory or of a remote file, and the files around it *)

\* The folder ctx of the working directory
Context(wd) == Append(wd, "ctx")

\* The entries below the working directory, in the order of a walk: a file
\* beside the folder of the build, the folder and what it holds
FilesAround(wd) ==
  <<[path |-> Context(wd), isDir |-> TRUE, modTime |-> 1],
    [path |-> Append(Context(wd), dockerfilePattern), isDir |-> FALSE, modTime |-> 1],
    [path |-> Append(Context(wd), "a.sh"), isDir |-> FALSE, modTime |-> 1],
    [path |-> Context(wd) \o <<"sub">>, isDir |-> TRUE, modTime |-> 1],
    [path |-> Context(wd) \o <<"sub", "b.sh">>, isDir |-> FALSE, modTime |-> 1],
    [path |-> Append(wd, "main.tf"), isDir |-> FALSE, modTime |-> 1]>>

\* No folder, ctx, ctx as an absolute path
BuildFolders(wd) == {<< >>, <<"ctx">>, <<"/">> \o Context(wd)}

\* No tag, v1, v:1, a/b-1.0_x followed by a space
BuildTags ==
  {<< >>, <<"v", "1">>, <<"v", ":", "1">>,
   <<"a", "/", "b", "-", "1", ".", "0", "_", "x", " ">>}

Builds(wd) ==
  {[Instructions |-> "RUN build", Folder |-> f, Tag |-> t, source |-> s] :
     f \in BuildFolders(wd), t \in BuildTags,
     s \in {Append(wd, configFile), <<"RemoteConfigFile">>}}

\* A build, after the configuration is resolved
InitTag ==
  /\ pc = "build"
  /\ NoRun
  /\ config = InitialConfig
  /\ buildConfig \in Builds(cwd)
  /\ tree = FilesAround(cwd)
  /\ tagged = << >>
  /\ NoArguments
  /\ NoCalls
  /\ NoUpdate
  /\ NoSearch
  /\ NoComparison

NextTag == CallGetTag \/ Touch

SpecTag == InitTag /\ [][NextTag]_vars

-----------------------------------------------------------------------------
(* Inputs of the aliases *)

\* The words of the command lines and of the replacements
Word ==
  [apply |-> <<"a", "p", "p", "l", "y">>,
   autoApprove |-> <<"-", "a", "u", "t", "o", "-", "a", "p", "p", "r", "o", "v", "e">>,
   deploy |-> <<"d", "e", "p", "l", "o", "y">>,
   d |-> <<"d">>,
   x |-> <<"-", "x">>,
   q |-> <<"q">>,
   plan |-> <<"p", "l", "a", "n">>,
   e |-> <<"e">>,
   w |-> <<"w">>,
   loop |-> <<"l", "o", "o", "p">>,
   a |-> <<"a">>,
   b |-> <<"b">>,
   var |-> <<"-", "v", "a", "r">>,
   xIsOne |-> <<"x", "=", "1">>,
   varAB |-> <<"-", "v", "a", "r", "=", "a", " ", "b">>]

\* deploy: apply -auto-approve; d: deploy  -x; q: plan -var="a b"; e: nothing;
\* w: a space; loop: loop -x; a: b; b: a
AllAliases ==
  (Word.deploy :> <<"a", "p", "p", "l", "y", " ", "-", "a", "u", "t", "o", "-", "a", "p", "p", "r", "o", "v", "e">>)
    @@ (Word.d :> <<"d", "e", "p", "l", "o", "y", " ", " ", "-", "x">>)
    @@ (Word.q :> <<"p", "l", "a", "n", " ", "-", "v", "a", "r", "=", "\"", "a", " ", "b", "\"">>)
    @@ (Word.e :> << >>)
    @@ (Word.w :> <<" ">>)
    @@ (Word.loop :> <<"l", "o", "o", "p", " ", "-", "x">>)
    @@ (Word.a :> Word.b)
    @@ (Word.b :> Word.a)

\* The aliases of a configuration
AliasMaps == {[k \in keys |-> AllAliases[k]] : keys \in SUBSET DOMAIN AllAliases}

\* The arguments of a command line
CommandLines ==
  {<< >>}
    \cup {<<first>> \o rest :
            first \in DOMAIN AllAliases \cup {Word.plan},
            rest \in {<< >>, <<Word.var, Word.xIsOne>>, <<Word.deploy>>}}

\* A command line, after the configuration is resolved
InitAlias ==
  /\ pc = "arguments"
  /\ NoRun
  /\ \E aliases \in AliasMaps : config = [InitialConfig EXCEPT !.Aliases = aliases]
  /\ NoBuild
  /\ arguments \in CommandLines
  /\ expanded = Nil
  /\ NoCalls
  /\ NoUpdate
  /\ NoSearch
  /\ NoComparison

NextAlias == CallParseAliases

SpecAlias == InitAlias /\ [][NextAlias]_vars

-----------------------------------------------------------------------------
(* Inputs of the gate *)

\* A process that has not called the gate, in any context
InitGate ==
  /\ pc = "gate"
  /\ \E useAWS, awsCli, awsFolder \in BOOLEAN :
       \E profile \in {"", "dev"}, file \in {"", "/etc/aws"}, override \in {"", "true"} :
         /\ app = [DefaultApp EXCEPT !.UseAWS = useAWS]
         /\ osEnv = [NoEnvironment EXCEPT !["AWS_PROFILE"] = profile,
                                          !["AWS_CONFIG_FILE"] = file,
                                          !["TGF_USE_AWS_CONFIG"] = override]
         /\ cloud = [NoCloud EXCEPT !.awsCli = awsCli, !.awsFolder = awsFolder]
  /\ cwd = WorkDir(MaxDepth)
  /\ files = [p \in {} |-> [readable |-> TRUE, raw |-> EmptyText]]
  /\ version = <<"1", ".", "2", "0", ".", "0">>
  /\ cachedAWSConfigExistCheck = Nil
  /\ cachedAwsConfig = Nil
  /\ config = InitialConfig
  /\ configsData = << >>
  /\ loadCalls = << >>
  /\ errors = << >>
  /\ valid = Nil
  /\ imageName = Nil
  /\ NoBuild
  /\ NoArguments
  /\ NoCalls
  /\ NoUpdate
  /\ NoSearch
  /\ NoComparison

NextGate == CallAwsConfigExist \/ ChangeContext

SpecGate == InitGate /\ [][NextGate]_vars

-----------------------------------------------------------------------------
(* Calls of the session *)

\* The number of calls of getAwsConfig and of InitAWS that are followed
MaxSessionCalls == 2

\* The durations that the callers of getAwsConfig ask for
Durations == {0, 2 * Hour}

\* A parameter store that holds the remote location
StoredLocation == [k \in {remoteConfigLocationParameter} |-> RemoteLocation]

\* What the credential chain and the cloud answer to the resolutions and to
\* the reads of a call
SessionOutcomes ==
  {NoCloud,
   [NoCloud EXCEPT !.load1 = TRUE],
   [NoCloud EXCEPT !.load1 = TRUE, !.retrieve1 = TRUE],
   [NoCloud EXCEPT !.load1 = TRUE, !.retrieve1 = TRUE, !.short = TRUE,
                   !.load2 = TRUE, !.retrieve2 = TRUE,
                   !.identity = "assumed-role", !.getRole = TRUE,
                   !.maxSessionDuration = 4 * Hour],
   [NoCloud EXCEPT !.load1 = TRUE, !.retrieve1 = TRUE, !.short = TRUE,
                   !.load2 = TRUE, !.identity = "assumed-role"],
   [NoCloud EXCEPT !.load1 = TRUE, !.retrieve1 = TRUE, !.short = TRUE,
                   !.identity = "user"],
   [NoCloud EXCEPT !.ssmOK = <<TRUE, TRUE>>, !.ssm = StoredLocation],
   [NoCloud EXCEPT !.load1 = TRUE, !.retrieve1 = TRUE, !.ssmOK = <<TRUE, FALSE>>,
                   !.ssm = StoredLocation]}

\* What is kept of a call: who was called with what, the cache, the
\* environment and the cloud it found, what getAwsConfig returned and asked
\* loadDefaultConfig, what guessAwsMaxAssumeRoleDuration returns for the
\* session, and the cache and the environment the call left
Served(by, duration, r, failed, env) ==
  [by |-> by, duration |-> duration, before |-> cachedAwsConfig, cl |-> cloud,
   envBefore |-> osEnv, err |-> r.err, session |-> r.session, calls |-> r.calls,
   guess |-> guessAwsMaxAssumeRoleDuration(cloud), after |-> r.cache,
   failed |-> failed, envAfter |-> env]

\* A call of getAwsConfig
CallGetAwsConfig ==
  /\ pc = "session"
  /\ Len(served) < MaxSessionCalls
  /\ \E assumeRoleDuration \in Durations :
       \E r \in {getAwsConfig(cachedAwsConfig, assumeRoleDuration, cloud)} :
         /\ cachedAwsConfig' = r.cache
         /\ loadCalls' = loadCalls \o r.calls
         /\ served' = Append(served,
                             Served("getAwsConfig", assumeRoleDuration, r, r.err, osEnv))
  /\ UNCHANGED <<pc, app, osEnv, cloud, cwd, files, cachedAWSConfigExistCheck, config,
                 configsData, version, errors, valid, imageName, tagVars, aliasVars,
                 gates, ssmReads, updateVars, fileVars, rangeVars>>

\* A call of InitAWS
CallInitAWS ==
  /\ pc = "session"
  /\ Len(served) < MaxSessionCalls
  /\ \E r \in {InitAWS(config, app, osEnv, cachedAwsConfig, cloud)} :
       /\ cachedAwsConfig' = r.cache
       /\ loadCalls' = loadCalls \o r.calls
       /\ osEnv' = r.env
       /\ config' = [config EXCEPT !.Environment = r.Environment]
       /\ served' = Append(served,
                           Served("InitAWS", 0, getAwsConfig(cachedAwsConfig, 0, cloud),
                                  r.err, r.env))
  /\ UNCHANGED <<pc, app, cloud, cwd, files, cachedAWSConfigExistCheck, configsData,
                 version, errors, valid, imageName, tagVars, aliasVars, gates, ssmReads,
                 updateVars, fileVars, rangeVars>>

\* A call of readSSMParameterStore: what is kept of it also holds the values
\* it returned and the number of the read
CallReadSSMParameterStore ==
  /\ pc = "session"
  /\ Len(served) < MaxSessionCalls
  /\ ssmReads < Len(cloud.ssmOK)
  /\ \E r \in {readSSMParameterStore(cachedAwsConfig, cloud, ssmReads + 1)} :
       /\ cachedAwsConfig' = r.cache
       /\ loadCalls' = loadCalls \o r.calls
       /\ ssmReads' = ssmReads + 1
       /\ served' = Append(served,
                           Served("readSSMParameterStore", 0,
                                  getAwsConfig(cachedAwsConfig, 0, cloud), FALSE, osEnv)
                             @@ [values |-> r.values, read |-> ssmReads + 1])
  /\ UNCHANGED <<pc, app, osEnv, cloud, cwd, files, cachedAWSConfigExistCheck, config,
                 configsData, version, errors, valid, imageName, tagVars, aliasVars,
                 gates, updateVars, fileVars, rangeVars>>

\* The credential chain and the cloud answer differently from now on
ChangeCredentials ==
  /\ pc = "session"
  /\ cloud' \in SessionOutcomes \ {cloud}
  /\ UNCHANGED <<pc, app, osEnv, cwd, files, cachedAWSConfigExistCheck, cachedAwsConfig,
                 config, configsData, loadCalls, version, errors, valid, imageName,
                 tagVars, aliasVars, sessionVars, updateVars, fileVars, rangeVars>>

-----------------------------------------------------------------------------
(* Inputs of the session *)

\* A process that has opened no session, with or without a profile in its
\* environment
InitSession ==
  /\ pc = "session"
  /\ app = DefaultApp
  /\ \E profile \in {"", "dev"} :
       osEnv = [NoEnvironment EXCEPT !["AWS_PROFILE"] = profile,
                                     !["AWS_DEFAULT_PROFILE"] = profile,
                                     !["AWS_REGION"] = "eu-west-1"]
  /\ cloud \in SessionOutcomes
  /\ cwd = WorkDir(MaxDepth)
  /\ files = [p \in {} |-> [readable |-> TRUE, raw |-> EmptyText]]
  /\ version = <<"1", ".", "2", "0", ".", "0">>
  /\ cachedAWSConfigExistCheck = Nil
  /\ cachedAwsConfig = Nil
  /\ config = InitialConfig
  /\ configsData = << >>
  /\ loadCalls = << >>
  /\ errors = << >>
  /\ valid = Nil
  /\ imageName = Nil
  /\ NoBuild
  /\ NoArguments
  /\ NoCalls
  /\ NoUpdate
  /\ NoSearch
  /\ NoComparison

NextSession ==
  CallGetAwsConfig \/ CallInitAWS \/ CallReadSSMParameterStore \/ ChangeCredentials

SpecSession == InitSession /\ [][NextSession]_vars

-----------------------------------------------------------------------------
(* Inputs of the dump of the configuration: InitAWS with and without
   ConfigDump, on a configuration with an environment of its own *)

\* The environment of the configuration: nothing, a variable, a variable and
\* a region
Environments ==
  {EmptyMap,
   [FOO |-> "bar"],
   [FOO |-> "bar", AWS_REGION |-> "eu-west-1"]}

InitDump ==
  /\ pc = "session"
  /\ \E dump \in BOOLEAN : app = [DefaultApp EXCEPT !.ConfigDump = dump]
  /\ \E profile \in {"", "dev"} :
       osEnv = [NoEnvironment EXCEPT !["AWS_PROFILE"] = profile,
                                     !["AWS_DEFAULT_PROFILE"] = profile]
  /\ cloud \in SessionOutcomes
  /\ cwd = WorkDir(MaxDepth)
  /\ files = [p \in {} |-> [readable |-> TRUE, raw |-> EmptyText]]
  /\ version = <<"1", ".", "2", "0", ".", "0">>
  /\ cachedAWSConfigExistCheck = Nil
  /\ cachedAwsConfig = Nil
  /\ \E environment \in Environments :
       config = [InitialConfig EXCEPT !.Environment = environment]
  /\ configsData = << >>
  /\ loadCalls = << >>
  /\ errors = << >>
  /\ valid = Nil
  /\ imageName = Nil
  /\ NoBuild
  /\ NoArguments
  /\ NoCalls
  /\ NoUpdate
  /\ NoSearch
  /\ NoComparison

NextDump == CallInitAWS

SpecDump == InitDump /\ [][NextDump]_vars

-----------------------------------------------------------------------------
(* Inputs of the updates *)

\* What the request for the latest release gives: no answer, an answer
\* without a tag_name, the release v1.21.0
ReleaseAnswers ==
  {[ok |-> FALSE, tag |-> << >>],
   [ok |-> TRUE, tag |-> << >>],
   [ok |-> TRUE, tag |-> <<"v", "1", ".", "2", "1", ".", "0">>]}

\* The flags --auto-update and --no-auto-update, the configuration, the time
\* since the last check, a released or a local tgf, and what happens to the
\* steps of an update
InitUpdate ==
  /\ pc = "update"
  /\ \E set, forced \in BOOLEAN :
       app = [DefaultApp EXCEPT !.AutoUpdateSet = set, !.AutoUpdate = forced]
  /\ osEnv = NoEnvironment
  /\ cloud = NoCloud
  /\ cwd = WorkDir(MaxDepth)
  /\ files = [p \in {} |-> [readable |-> TRUE, raw |-> EmptyText]]
  /\ version \in {<<"1", ".", "2", "0", ".", "0">>, locallyBuilt}
  /\ cachedAWSConfigExistCheck = Nil
  /\ cachedAwsConfig = Nil
  /\ \E enabled \in BOOLEAN :
       \E pinned \in {"", "1.19.0"}, recommended \in {<< >>, FromOneTwentyOne} :
         config = [InitialConfig EXCEPT !.AutoUpdate = enabled, !.UpdateVersion = pinned,
                                        !.RecommendedTGFVersion = recommended]
  /\ configsData = << >>
  /\ loadCalls = << >>
  /\ errors = << >>
  /\ valid = Nil
  /\ imageName = Nil
  /\ NoBuild
  /\ NoArguments
  /\ NoCalls
  /\ sinceRefresh \in {1 * Hour, 2 * Hour, 3 * Hour}
  /\ due = Nil
  /\ release \in [tempFile : BOOLEAN, download : BOOLEAN,
                   apply : {"applied", "rejected", "restored", "lost"},
                   api : ReleaseAnswers]
  /\ binary = "previous"
  /\ updated = Nil
  /\ latest = Nil
  /\ NoSearch
  /\ NoComparison

NextUpdate == CallShouldUpdate \/ CallDoUpdate \/ CallGetUpdateVersion

SpecUpdate == InitUpdate /\ [][NextUpdate]_vars

-----------------------------------------------------------------------------
(* The search for configuration files *)

\* A call of findConfigFiles on the working directory
CallFindConfigFiles ==
  /\ pc = "files"
  /\ foundFiles = Nil
  /\ foundFiles' = Ptr(findConfigFiles(cwd, app, files))
  /\ UNCHANGED <<pc, app, osEnv, cloud, cwd, files, cachedAWSConfigExistCheck,
                 cachedAwsConfig, config, configsData, loadCalls, version, errors, valid,
                 imageName, tagVars, aliasVars, sessionVars, updateVars, rangeVars>>

\* The files of a folder: none, tgf.user.config, .tgf.config, both
FolderStates == SUBSET {userConfigFile, configFile}

\* A file system with the files that `choice` gives to the working directory
\* and to each of its parents, and a .tgf.config in a folder beside them
TreeOfFiles(dir, choice) ==
  [p \in UNION {{Append(SubSeq(dir, 1, l), name) : name \in choice[l]} : l \in 0..Len(dir)}
          \cup {<<"elsewhere", configFile>>} |->
     [readable |-> TRUE, raw |-> EmptyText]]

InitFiles ==
  /\ pc = "files"
  /\ \E noUser \in BOOLEAN : app = [DefaultApp EXCEPT !.DisableUserConfig = noUser]
  /\ osEnv = NoEnvironment
  /\ cloud = NoCloud
  /\ cwd = WorkDir(MaxDepth)
  /\ \E choice \in [0..MaxDepth -> FolderStates] : files = TreeOfFiles(cwd, choice)
  /\ version = <<"1", ".", "2", "0", ".", "0">>
  /\ cachedAWSConfigExistCheck = Nil
  /\ cachedAwsConfig = Nil
  /\ config = InitialConfig
  /\ configsData = << >>
  /\ loadCalls = << >>
  /\ errors = << >>
  /\ valid = Nil
  /\ imageName = Nil
  /\ NoBuild
  /\ NoArguments
  /\ NoCalls
  /\ NoUpdate
  /\ foundFiles = Nil
  /\ NoComparison

NextFiles == CallFindConfigFiles

SpecFiles == InitFiles /\ [][NextFiles]_vars

-----------------------------------------------------------------------------
(* The comparison of a version with a range *)

\* A call of CheckVersionRange
CallCheckVersionRange ==
  /\ pc = "range"
  /\ inRange = Nil
  /\ inRange' = Ptr(CheckVersionRange(compared[1].version, compared[1].compare))
  /\ UNCHANGED <<pc, app, osEnv, cloud, cwd, files, cachedAWSConfigExistCheck,
                 cachedAwsConfig, config, configsData, loadCalls, version, errors, valid,
                 imageName, tagVars, aliasVars, sessionVars, updateVars, fileVars,
                 compared>>

\* <1.2.5
BelowOneTwoFive == <<"<", "1", ".", "2", ".", "5">>

\* >=1.2.3
FromOneTwoThree == <<">", "=", "1", ".", "2", ".", "3">>

\* >=1.2.0 <=1.2.4
FromOneTwoToOneTwoFour ==
  <<">", "=", "1", ".", "2", ".", "0", " ", "<", "=", "1", ".", "2", ".", "4">>

\* The ranges that a version is compared with
ComparedRanges ==
  {FromOneTwoBelowTwo, BelowOneTwoOrFromTwo, FromTwo, NotARange, BelowOneTwoFive,
   FromOneTwoThree, FromOneTwoToOneTwoFour}

\* The versions that are compared: 1, 1.0, 1.1, 1.2, 1.3, 2.0, 1.2.3, 1.2.9,
\* 2.0.0, 1.2.0-rc
ComparedVersions ==
  {<<"1">>, <<"1", ".", "0">>, <<"1", ".", "1">>, <<"1", ".", "2">>, <<"1", ".", "3">>,
   <<"2", ".", "0">>, <<"1", ".", "2", ".", "3">>, <<"1", ".", "2", ".", "9">>,
   <<"2", ".", "0", ".", "0">>, <<"1", ".", "2", ".", "0", "-", "r", "c">>}

\* A version and a range, before CheckVersionRange is called
InitRange ==
  /\ pc = "range"
  /\ NoRun
  /\ config = InitialConfig
  /\ NoBuild
  /\ NoArguments
  /\ NoCalls
  /\ NoUpdate
  /\ NoSearch
  /\ \E v \in ComparedVersions, range \in ComparedRanges :
       compared = Ptr([version |-> v, compare |-> range])
  /\ inRange = Nil

NextRange == CallCheckVersionRange

SpecRange == InitRange /\ [][NextRange]_vars




-----------------------------------------------------------------------------
(* Properties of the resolution *)

\* Layer i was parsed and its text defines the field
Defines(i, field) ==
  /\ configsData[i].Raw.ok
  /\ field \in DOMAIN configsData[i].Raw.set \cap ExportedFields

\* The resolved configuration holds the value v in the field
Holds(field, v) ==
  IF field \in PointerFields THEN config[field] = <<v>> ELSE config[field] = v

SettableScalars == ScalarKeys \cup ListKeys

\* The non-empty values that the parsed layers give to a key, in layer order
Contributions(key) ==
  LET contributing == SelectSeq([i \in 1..Len(configsData) |-> i],
                                LAMBDA i : Defines(i, key)
                                           /\ configsData[i].Raw.set[key] # "")
  IN  [n \in 1..Len(contributing) |-> configsData[contributing[n]].Raw.set[key]]

\* The layers as setDefaultValues collected them, before they were parsed
CollectedLayers ==
  [i \in 1..Len(configsData) |-> [Name |-> configsData[i].Name, Raw |-> configsData[i].Raw]]

\* The receiver as it was when the layers were about to be merged
BeforeMerge == [InitialConfig EXCEPT !.Environment = config.Environment]

\* C1: a scalar field set by layer i and by no layer after i holds the value
\* of layer i in the resolved configuration, whatever the layers before i set.
C1_LastLayerWins ==
  pc = "configured" =>
    \A i \in 1..Len(configsData) : \A f \in SettableScalars :
      (Defines(i, f) /\ \A j \in (i + 1)..Len(configsData) : ~Defines(j, f))
        => Holds(f, configsData[i].Raw.set[f])

\* Three parsed layers, the first two set the image and the third does not:
\* the image is the one of the second layer.
C1_Witness ==
  /\ pc = "configured"
  /\ Len(configsData) = 3
  /\ Defines(1, "Image") /\ Defines(2, "Image")
  /\ configsData[3].Raw.ok /\ ~Defines(3, "Image")
  /\ configsData[1].Raw.set["Image"] # configsData[2].Raw.set["Image"]
  /\ config.Image = configsData[2].Raw.set["Image"]

\* C2: after InitConfig a field that no layer sets has its built-in default:
\* image coveo/tgf, refresh 1 hour, auto-update delay 2 hours, auto-update
\* enabled, entry point terragrunt, log level notice.
C2_DefaultsWhenUnset ==
  pc = "configured" =>
    LET unset(f) == \A i \in 1..Len(configsData) : ~Defines(i, f)
    IN  /\ unset("Image") => config.Image = <<"c", "o", "v", "e", "o", "/", "t", "g", "f">>
        /\ unset("Refresh") => config.Refresh = 60
        /\ unset("AutoUpdateDelay") => config.AutoUpdateDelay = 120
        /\ unset("AutoUpdate") => config.AutoUpdate = TRUE
        /\ unset("EntryPoint") => config.EntryPoint = "terragrunt"
        /\ unset("LogLevel") => config.LogLevel = "notice"
        /\ unset("ImageVersion") => config.ImageVersion = Nil

\* Layers were merged, one of them sets the log level and the entry point,
\* none the other fields.
C2_Witness ==
  /\ pc = "configured"
  /\ \E i \in 1..Len(configsData) : Defines(i, "LogLevel")
  /\ config.LogLevel # "notice"
  /\ \A i \in 1..Len(configsData) :
       \A f \in ScalarKeys \ {"LogLevel", "EntryPoint"} : ~Defines(i, f)
  /\ config.Refresh = 60 /\ config.AutoUpdateDelay = 120 /\ config.AutoUpdate

\* Merging the first k layers and then merging the others into the result
TwoMerges(k) ==
  MergeConfigs(MergeConfigs(BeforeMerge, SubSeq(CollectedLayers, 1, k)).config,
               SubSeq(CollectedLayers, k + 1, Len(configsData))).config

C4_RunBeforeReversed ==
  pc = "configured" =>
    /\ config.runBeforeCommands = Reverse(Contributions("RunBefore"))
    /\ (\A i \in 1..Len(configsData) : Defines(i, "RunBefore"))
         => /\ Len(config.runBeforeCommands) = Len(configsData)
            /\ \A n \in 1..Len(configsData) :
                 config.runBeforeCommands[n]
                   = configsData[Len(configsData) + 1 - n].Raw.set["RunBefore"]

\* Three layers contribute one run-before command each.
C4_Witness ==
  /\ pc = "configured"
  /\ Len(configsData) = 3
  /\ \A i \in 1..3 : Defines(i, "RunBefore")
  /\ config.runBeforeCommands[1] = configsData[3].Raw.set["RunBefore"]
  /\ config.runBeforeCommands[3] = configsData[1].Raw.set["RunBefore"]

\* The build specs of the parsed layers that define a build instruction, in
\* layer order
BuildsInLayerOrder ==
  LET building == SelectSeq([i \in 1..Len(configsData) |-> i],
                            LAMBDA i : Defines(i, "ImageBuild"))
  IN  [n \in 1..Len(building) |->
         [Instructions |-> configsData[building[n]].Raw.set["ImageBuild"],
          Folder |-> "", Tag |-> "", source |-> configsData[building[n]].Name]]

\* C5, as claimed: imageBuildConfigs holds the build spec of every layer that
\* defines one, the most specific layer's last.
C5_MostSpecificLast ==
  pc = "configured" => config.imageBuildConfigs = BuildsInLayerOrder

\* C5, amended: imageBuildConfigs holds the build spec of every layer that
\* defines one, none overwritten, the most specific layer's first.
C5_MostSpecificFirst ==
  pc = "configured" => config.imageBuildConfigs = Reverse(BuildsInLayerOrder)

\* Three layers define a build instruction.
C5_Witness ==
  /\ pc = "configured"
  /\ Len(configsData) = 3
  /\ \A i \in 1..3 : Defines(i, "ImageBuild")
  /\ config.imageBuildConfigs[1].source = configsData[3].Name

\* C6: a layer that fails to parse changes nothing and contributes nothing,
\* and the layers after it are merged: the result is that of merging the
\* layers that parse.
C6_ParseFailureSkipped ==
  pc = "configured" =>
    config = MergeConfigs(BeforeMerge,
                          SelectSeq(CollectedLayers, LAMBDA layer : layer.Raw.ok)).config

\* An unparsable layer is followed by a layer that sets the image and gives a
\* run-after command.
C6_Witness ==
  /\ pc = "configured"
  /\ \E i \in 1..Len(configsData) :
       /\ ~configsData[i].Raw.ok
       /\ i < Len(configsData)
       /\ Defines(Len(configsData), "Image")
       /\ Defines(Len(configsData), "RunAfter")
       /\ config.Image = configsData[Len(configsData)].Raw.set["Image"]
       /\ Last(config.runAfterCommands) = configsData[Len(configsData)].Raw.set["RunAfter"]

\* 1 for a file of the remote location, 2 for the parameter store, 3 for a
\* local file
Priority(layer) ==
  IF layer.Name = <<"RemoteConfigFile">> THEN 1
  ELSE IF layer.Name = <<"AWS", "ParametersStore">> THEN 2
  ELSE 3

\* C7: the layers are merged remote files first, then the parameter store,
\* then the local files, and a field that a local file sets holds the value
\* of a local file, never the one of a remote or parameter-store layer.
C7_LocalOverridesRemote ==
  pc = "configured" =>
    /\ \A i, j \in 1..Len(configsData) :
         i < j => Priority(configsData[i]) <= Priority(configsData[j])
    /\ \A f \in SettableScalars :
         (\E i \in 1..Len(configsData) : Priority(configsData[i]) = 3 /\ Defines(i, f))
           => \E i \in 1..Len(configsData) :
                /\ Priority(configsData[i]) = 3
                /\ Defines(i, f)
                /\ Holds(f, configsData[i].Raw.set[f])

\* A remote file and a local file set the image to different values, and so
\* do the parameter store and a local file in another run.
C7_Witness ==
  /\ pc = "configured"
  /\ Len(configsData) >= 2
  /\ Priority(configsData[1]) = 1
  /\ Defines(1, "Image")
  /\ Priority(configsData[Len(configsData)]) = 3
  /\ Defines(Len(configsData), "Image")
  /\ configsData[1].Raw.set["Image"] # config.Image

\* The parameter store layer and a local file set the image to different
\* values.
C7_WitnessStore ==
  /\ pc = "configured"
  /\ Len(configsData) >= 2
  /\ Priority(configsData[1]) = 2
  /\ Defines(1, "Image")
  /\ Priority(configsData[Len(configsData)]) = 3
  /\ Defines(Len(configsData), "Image")
  /\ configsData[1].Raw.set["Image"] # config.Image

-----------------------------------------------------------------------------
(* Validation *)

\* The place in the order of versions of the image versions that are a
\* version, a major.minor version with the patch component it is given: major,
\* minor, patch, and 0 for a prerelease, which precedes its release
PlaceOf ==
  (<<"1", ".", "0">> :> <<1, 0, 9999, 1>>)
    @@ (<<"1", ".", "1">> :> <<1, 1, 9999, 1>>)
    @@ (<<"1", ".", "2">> :> <<1, 2, 9999, 1>>)
    @@ (<<"1", ".", "2", ".", "3">> :> <<1, 2, 3, 1>>)
    @@ (<<"2", ".", "0", ".", "0">> :> <<2, 0, 0, 1>>)
    @@ (<<"1", ".", "2", ".", "0", "-", "r", "c">> :> <<1, 2, 0, 0>>)

Precedes(a, b) ==
  \E i \in 1..4 : a[i] < b[i] /\ \A j \in 1..(i - 1) : a[j] = b[j]

\* What the well-formed required ranges of the inputs mean
Inside(range, place) ==
  CASE range = FromOneTwoBelowTwo ->
         ~Precedes(place, <<1, 2, 0, 1>>) /\ Precedes(place, <<2, 0, 0, 1>>)
    [] range = BelowOneTwoOrFromTwo ->
         Precedes(place, <<1, 2, 0, 1>>) \/ ~Precedes(place, <<2, 0, 0, 1>>)

HasFinding(kind) == \E i \in 1..Len(errors) : errors[i].kind = kind

\* C8: with a required range, validate reports no Mismatch for an image
\* version inside the range (a major.minor version with the patch component
\* it is given), a Mismatch for one outside, and for a malformed range an
\* error that is not a Mismatch: 1.2 is valid for >=1.2.0 <2.0.0, 1.1 is a
\* Mismatch, not-a-range is an error.
C8_RequiredRange ==
  (/\ pc = "validated"
   /\ config.RequiredVersionRange # << >>
   /\ config.ImageVersion # Nil
   /\ config.ImageVersion[1] \in DOMAIN PlaceOf)
    => /\ config.RequiredVersionRange = NotARange
            => /\ ~HasFinding("VersionMistmatchError")
               /\ Last(errors) = Errorf("RequiredVersionRange", config.ImageVersion[1])
       /\ config.RequiredVersionRange # NotARange
            => /\ HasFinding("VersionMistmatchError")
                    <=> ~Inside(config.RequiredVersionRange,
                                PlaceOf[config.ImageVersion[1]])
               /\ \A i \in 1..Len(errors) :
                    errors[i] # Errorf("RequiredVersionRange", config.ImageVersion[1])
       /\ (/\ config.RequiredVersionRange = FromOneTwoBelowTwo
           /\ config.ImageVersion[1] = <<"1", ".", "2">>)
            => ~HasFinding("VersionMistmatchError")
       /\ (/\ config.RequiredVersionRange = FromOneTwoBelowTwo
           /\ config.ImageVersion[1] = <<"1", ".", "1">>)
            => HasFinding("VersionMistmatchError")

\* Version 1.2 was validated against >=1.2.0 <2.0.0 and no finding is about
\* the required range.
C8_Witness ==
  /\ pc = "validated"
  /\ config.RequiredVersionRange = FromOneTwoBelowTwo
  /\ config.ImageVersion = Ptr(<<"1", ".", "2">>)
  /\ \A i \in 1..Len(errors) : errors[i].rule # "RequiredVersionRange"

\* C9: ValidateVersion returns false exactly when the findings hold an error
\* that is neither a warning nor a Mismatch, or hold a Mismatch while the
\* command line gives no image version; warnings, and a Mismatch with an image
\* version on the command line, leave the result true.
C9_AbortOnlyOnFatal ==
  pc = "validated"
    => (valid = Ptr(FALSE)
          <=> \/ HasFinding("error")
              \/ HasFinding("VersionMistmatchError") /\ app.ImageVersion = <<"-">>)

\* A warning and a Mismatch were found with an image version on the command
\* line, and the result is true.
C9_Witness ==
  /\ pc = "validated"
  /\ app.ImageVersion # <<"-">>
  /\ HasFinding("VersionMistmatchError")
  /\ HasFinding("ConfigWarning")
  /\ valid = Ptr(TRUE)

\* C10: the image name is the image, followed by a colon and the suffix when
\* the suffix has two characters or more; the suffix is the version and the
\* tag, with a hyphen between them when none is empty.  foo, 1.0 and no tag
\* give foo:1.0; foo alone gives foo; foo, 1.0 and k8s give foo:1.0-k8s.
C10_ImageName ==
  imageName # Nil
    => LET v == IF config.ImageVersion = Nil THEN << >> ELSE config.ImageVersion[1]
           t == IF config.ImageTag = Nil THEN << >> ELSE config.ImageTag[1]
           joined == IF v # << >> /\ t # << >> THEN v \o <<"-">> \o t ELSE v \o t
       IN  /\ imageName[1] = IF Len(joined) >= 2 THEN config.Image \o <<":">> \o joined
                             ELSE config.Image
           /\ (config.Image = Foo /\ v = <<"1", ".", "0">> /\ t = << >>)
                => imageName[1] = <<"f", "o", "o", ":", "1", ".", "0">>
           /\ (config.Image = Foo /\ v = << >> /\ t = << >>)
                => imageName[1] = <<"f", "o", "o">>
           /\ (config.Image = Foo /\ v = <<"1", ".", "0">> /\ t = <<"k", "8", "s">>)
                => imageName[1] = <<"f", "o", "o", ":", "1", ".", "0", "-", "k", "8", "s">>

\* The image foo with the version 1 and an empty tag: the suffix has one
\* character and the name is foo.
C10_Witness ==
  /\ config.Image = Foo
  /\ config.ImageVersion = Ptr(<<"1">>)
  /\ config.ImageTag = Ptr(<< >>)
  /\ imageName = Ptr(Foo)

-----------------------------------------------------------------------------
(* Build tags *)

\* The folder in which the build is made, as an absolute path
FolderOfBuild ==
  IF buildConfig.Folder = << >> /\ ~IsAbs(buildConfig.source)
  THEN cwd \o Dir(buildConfig, cwd)
  ELSE Dir(buildConfig, cwd)

\* The files that two calls of GetTag found with different times
Retimed(i, j) ==
  {k \in 1..Len(tree) : tagged[i].tree[k].modTime # tagged[j].tree[k].modTime}

\* The files of which the time is part of the tag: the files below the folder
\* that the build names, but the Dockerfile
Hashed(k) ==
  /\ buildConfig.Folder # << >>
  /\ Under(tree[k].path, FolderOfBuild)
  /\ \A n \in 1..Len(tree[k].path) : tree[k].path[n] # dockerfilePattern

\* C11, as claimed: for a build without a tag of its own, two calls of GetTag
\* that find the same times return the same tag, and two calls that find
\* different times for a file below the folder of the build return different
\* tags.
C11_TagFollowsTimes ==
  \A i, j \in 1..Len(tagged) :
    buildConfig.Tag = << >>
      => /\ tagged[i].tree = tagged[j].tree => tagged[i].tag = tagged[j].tag
         /\ (\E k \in Retimed(i, j) : Under(tree[k].path, FolderOfBuild))
              => tagged[i].tag # tagged[j].tag

\* C11, amended: two calls that find the same times return the same tag, and
\* two calls return different tags exactly when they find different times for
\* a file below the folder that the build names, the Dockerfile excepted; the
\* files of a build that names no folder do not count.
C11_TagFollowsHashedTimes ==
  \A i, j \in 1..Len(tagged) :
    buildConfig.Tag = << >>
      => /\ tagged[i].tree = tagged[j].tree => tagged[i].tag = tagged[j].tag
         /\ tagged[i].tag # tagged[j].tag <=> \E k \in Retimed(i, j) : Hashed(k)

\* Two calls of GetTag on a build without a tag of its own, before and after a
\* file of its folder was touched, returned different tags.
C11_Witness ==
  /\ Len(tagged) = 2
  /\ buildConfig.Tag = << >>
  /\ buildConfig.Folder = <<"ctx">>
  /\ Cardinality(Retimed(1, 2)) = 1
  /\ \E k \in Retimed(1, 2) : Hashed(k)
  /\ tagged[1].tag # tagged[2].tag

-----------------------------------------------------------------------------
(* Aliases *)

\* The arguments that the replacement of an alias stands for once it is itself
\* expanded, written down by hand for the aliases of AllAliases that end
Expansion(aliases, key) ==
  IF key = Word.deploy THEN <<Word.apply, Word.autoApprove>>
  ELSE IF key = Word.d
  THEN (IF Word.deploy \in DOMAIN aliases
        THEN <<Word.apply, Word.autoApprove, Word.x>>
        ELSE <<Word.deploy, Word.x>>)
  ELSE IF key = Word.q THEN <<Word.plan, Word.varAB>>
  ELSE IF key = Word.a THEN <<Word.b>>
  ELSE IF key = Word.b THEN <<Word.a>>
  ELSE << >>

\* What parseAliases returned for the arguments, when it returned
Returned == expanded[1].args

\* parseAliases returned
Returns == expanded # Nil /\ ~expanded[1].diverges

\* C12 (as stated): when the first argument is a key of the aliases, the
\* result is the expanded replacement followed by the arguments after the
\* first; in every other case the arguments are returned unchanged.
C12_LeadingAliasReplaced ==
  Returns =>
    IF arguments # << >> /\ arguments[1] \in DOMAIN config.Aliases
    THEN Returned = Expansion(config.Aliases, arguments[1]) \o Tail(arguments)
    ELSE Returned = arguments

\* C12 (amended): when the first argument is a key of the aliases whose
\* replacement is not the empty text, the result is the expanded replacement
\* followed by the arguments after the first, unchanged and in order; when it
\* is not a key, when its replacement is empty or when there is no argument,
\* the arguments are returned unchanged.
C12_LeadingNonEmptyAliasReplaced ==
  Returns =>
    IF /\ arguments # << >>
       /\ arguments[1] \in DOMAIN config.Aliases
       /\ config.Aliases[arguments[1]] # << >>
    THEN Returned = Expansion(config.Aliases, arguments[1]) \o Tail(arguments)
    ELSE Returned = arguments

\* deploy -var x=1 has become apply -auto-approve -var x=1
C12_Witness ==
  /\ Returns
  /\ arguments = <<Word.deploy, Word.var, Word.xIsOne>>
  /\ Word.deploy \in DOMAIN config.Aliases
  /\ Returned = <<Word.apply, Word.autoApprove, Word.var, Word.xIsOne>>

-----------------------------------------------------------------------------
(* The gate *)

\* What awsConfigExist would answer in the present context had it never
\* been called
Unmemoized == awsConfigExist(Nil, app, osEnv, cloud)

\* C13: once awsConfigExist has been evaluated, every later call returns the
\* boolean of the first call, whatever has become of the flag, of the
\* environment, of the search path and of ~/.aws.
C13_GateMemoized ==
  /\ \A i \in 1..Len(gates) : gates[i] = gates[1]
  /\ gates # << >> => cachedAWSConfigExistCheck = Ptr(gates[1])

\* A second call has answered as the first in a context for which the
\* answer would have been the opposite
C13_Witness ==
  /\ Len(gates) >= 2
  /\ gates[2] = gates[1]
  /\ Unmemoized # gates[1]

-----------------------------------------------------------------------------
(* The session *)

\* The calls that wrote the session cache
Writes == {i \in 1..Len(served) : served[i].after # served[i].before}

\* C14: the session cache is written at most once; a call of getAwsConfig
\* that finds it empty and succeeds resolves a session and caches it; a call
\* that finds it set returns the cached session without a resolution, for
\* any duration.
C14_SessionCachedOnce ==
  /\ Cardinality(Writes) <= 1
  /\ \A i \in 1..Len(served) :
       /\ served[i].before = Nil /\ ~served[i].err =>
            /\ served[i].calls # << >>
            /\ served[i].after = Ptr(served[i].session)
       /\ served[i].before # Nil =>
            /\ ~served[i].err
            /\ served[i].session = served[i].before[1]
            /\ served[i].calls = << >>
            /\ served[i].after = served[i].before
  /\ served # << >> => cachedAwsConfig = served[Len(served)].after

\* A second call for another duration got the session of the first, although
\* the credential chain would not give one any more
C14_Witness ==
  /\ Len(served) >= 2
  /\ served[1].by = "getAwsConfig" /\ served[2].by = "getAwsConfig"
  /\ served[1].after # Nil
  /\ served[2].duration # served[1].duration
  /\ ~served[2].cl.load1
  /\ served[2].session = served[1].session
  /\ served[2].calls = << >>

\* The calls that resolved a session whose credentials expire within the hour
Extended == {i \in 1..Len(served) : Len(served[i].calls) = 2}

\* C15: when the resolved credentials expire in less than one hour,
\* getAwsConfig resolves again and asks for the duration that
\* guessAwsMaxAssumeRoleDuration returns.
C15_ExtendsToGuessedDuration ==
  \A i \in Extended : served[i].calls[2] = served[i].guess

\* A session that expires within the hour was resolved again for the duration
\* of the caller, the role allowing four hours
C15_Witness ==
  \E i \in Extended :
    /\ served[i].guess = 4 * Hour
    /\ served[i].calls = <<served[i].duration, served[i].duration>>

\* C16: when the second resolution fails, getAwsConfig returns the session of
\* the first with no error and caches it.
C16_KeepsShortSession ==
  \A i \in Extended :
    ~served[i].cl.load2 =>
      /\ ~served[i].err
      /\ served[i].session = Session(1, served[i].duration)
      /\ served[i].after = Ptr(served[i].session)

\* The second resolution of a call failed, and the next call got the session
\* of the first resolution from the cache
C16_Witness ==
  /\ Len(served) >= 2
  /\ 1 \in Extended
  /\ ~served[1].cl.load2
  /\ served[2].before = Ptr(Session(1, served[1].duration))
  /\ served[2].session = Session(1, served[1].duration)

\* The calls of InitAWS
Initialized == {i \in 1..Len(served) : served[i].by = "InitAWS"}

\* C19: after a successful InitAWS the environment holds the access key, the
\* secret, the token and the region of the session, and AWS_PROFILE and
\* AWS_DEFAULT_PROFILE are unset; a failed InitAWS returns an error and
\* leaves every variable of the environment as it was.
C19_EnvironmentOnSuccessOnly ==
  \A i \in Initialized :
    IF served[i].failed
    THEN served[i].envAfter = served[i].envBefore
    ELSE /\ served[i].envAfter["AWS_ACCESS_KEY_ID"]
              = Credentials(served[i].session).AccessKeyID
         /\ served[i].envAfter["AWS_SECRET_ACCESS_KEY"]
              = Credentials(served[i].session).SecretAccessKey
         /\ served[i].envAfter["AWS_SESSION_TOKEN"]
              = Credentials(served[i].session).SessionToken
         /\ served[i].envAfter["AWS_REGION"] = served[i].session.Region
         /\ served[i].envAfter["AWS_PROFILE"] = ""
         /\ served[i].envAfter["AWS_DEFAULT_PROFILE"] = ""
         /\ \A k \in DOMAIN osEnv \ {"AWS_ACCESS_KEY_ID", "AWS_SECRET_ACCESS_KEY",
                                    "AWS_SESSION_TOKEN", "AWS_REGION", "AWS_PROFILE",
                                    "AWS_DEFAULT_PROFILE"} :
              served[i].envAfter[k] = served[i].envBefore[k]

\* With a profile in the environment, InitAWS failed and left it, then
\* succeeded and removed it
C19_Witness ==
  /\ Len(served) >= 2
  /\ {1, 2} \subseteq Initialized
  /\ served[1].failed /\ ~served[2].failed
  /\ served[1].envBefore["AWS_PROFILE"] = "dev"
  /\ served[2].envBefore["AWS_PROFILE"] = "dev"
  /\ osEnv["AWS_PROFILE"] = ""
  /\ osEnv["AWS_REGION"] = "us-east-1"

-----------------------------------------------------------------------------
(* Updates *)

\* --auto-update is on the command line
ForceEnabled == app.AutoUpdateSet /\ app.AutoUpdate

\* --no-auto-update is on the command line
ForceDisabled == app.AutoUpdateSet /\ ~app.AutoUpdate

\* The tgf that called ShouldUpdate was built locally
LocalBuild == due[1].version = locallyBuilt

\* C17 (as stated): an update check is due exactly when it is forced on the
\* command line, or when auto-update is enabled in the configuration, the
\* time since the last check exceeds the delay and tgf is no local build.
C17_DueWhenForcedOrConfigured ==
  due # Nil =>
    (due[1].result <=>
       \/ ForceEnabled
       \/ /\ config.AutoUpdate
          /\ sinceRefresh > config.AutoUpdateDelay
          /\ ~LocalBuild)

\* C17 (amended): an update check is due exactly when it is forced on the
\* command line, or when the command line says nothing of updates,
\* auto-update is enabled in the configuration, the time since the last check
\* is not less than the delay and tgf is no local build.
C17_DueWhenForcedOrConfiguredAndNotDisabled ==
  due # Nil =>
    (due[1].result <=>
       \/ ForceEnabled
       \/ /\ ~ForceDisabled
          /\ config.AutoUpdate
          /\ sinceRefresh >= config.AutoUpdateDelay
          /\ ~LocalBuild)

\* No update is due for --no-auto-update, although the configuration enables
\* them, the last check is older than the delay and tgf is a release
C17_Witness ==
  /\ due # Nil
  /\ ~due[1].result
  /\ ForceDisabled
  /\ config.AutoUpdate
  /\ sinceRefresh > config.AutoUpdateDelay
  /\ ~LocalBuild

\* Apply was called and failed
ApplyFailed ==
  /\ updated # Nil
  /\ release.tempFile
  /\ release.download
  /\ release.apply # "applied"

\* C18: when Apply fails, DoUpdate returns its error, and the executable is
\* the previous one again unless the rollback failed; the failure of a
\* rollback is logged, and the error returned still names what failed first.
C18_FailureReturnedAfterRollback ==
  ApplyFailed =>
    /\ updated[1].err # Nil
    /\ updated[1].err[1].cause \in {"checksum", "rename"}
    /\ release.apply # "lost" => binary = "previous" /\ updated[1].logged = << >>
    /\ release.apply = "lost" => updated[1].logged = <<"rollback">>

\* The rollback failed: it is logged and the failed rename is returned
C18_Witness ==
  /\ ApplyFailed
  /\ release.apply = "lost"
  /\ updated[1].logged = <<"rollback">>
  /\ updated[1].err = Failure("rename", Ptr("rollback"))

-----------------------------------------------------------------------------
(* The gate of the cloud session *)

\* The variables of the environment that InitAWS sets
CredentialVariables ==
  {"AWS_ACCESS_KEY_ID", "AWS_SECRET_ACCESS_KEY", "AWS_SESSION_TOKEN", "AWS_REGION"}

\* Nothing of the cloud has been asked: no session resolved, no parameter
\* read, no credential put in the environment of the process or of the
\* container
CloudUntouched ==
  /\ loadCalls = << >>
  /\ cachedAwsConfig = Nil
  /\ ssmReads = 0
  /\ \A k \in CredentialVariables : osEnv[k] = ""
  /\ CredentialVariables \cap DOMAIN config.Environment = {}

\* C20: a resolution pass asks the cloud for a session, for parameters or for
\* credentials to export only once the gate has been evaluated and was true;
\* when the gate is false nothing of the cloud is touched.
C20_SessionOnlyBehindGate ==
  /\ pc = "start" => cachedAWSConfigExistCheck = Nil /\ CloudUntouched
  /\ pc # "start" => cachedAWSConfigExistCheck # Nil
  /\ cachedAWSConfigExistCheck # Ptr(TRUE) => CloudUntouched

\* The pass is over with the gate false, where credentials could be resolved
\* and the parameter store holds parameters
C20_Witness ==
  /\ pc = "configured"
  /\ cachedAWSConfigExistCheck = Ptr(FALSE)
  /\ cloud.load1 /\ cloud.retrieve1
  /\ cloud.ssmOK[1] /\ cloud.ssm # EmptyMap
  /\ CloudUntouched

-----------------------------------------------------------------------------
(* The parameter store *)

\* The calls of readSSMParameterStore
Reads == {i \in 1..Len(served) : served[i].by = "readSSMParameterStore"}

\* The session could not be opened, or GetParametersByPath failed
ReadFailed(i) == served[i].err \/ ~served[i].cl.ssmOK[served[i].read]

-----------------------------------------------------------------------------
(* The version of an update *)

\* C22: GetUpdateVersion returns the version pinned in the configuration
\* whenever there is one, without a request to the release API; it asks the
\* API exactly when no version is pinned.
C22_PinnedVersionWithoutRequest ==
  latest # Nil =>
    IF config.UpdateVersion # ""
    THEN /\ latest[1].requests = 0
         /\ ~latest[1].err
         /\ latest[1].version = config.UpdateVersion
    ELSE latest[1].requests = 1

\* The pinned version was returned where the API would have named a release
C22_Witness ==
  /\ latest # Nil
  /\ config.UpdateVersion = "1.19.0"
  /\ release.api.ok /\ release.api.tag # << >>
  /\ latest[1] = [version |-> "1.19.0", err |-> FALSE, requests |-> 0]

-----------------------------------------------------------------------------
(* The parameter-store layer *)

\* The places of the layers of a priority in the list of layers
LayersOf(priority) == {i \in 1..Len(configsData) : Priority(configsData[i]) = priority}

\* C23: the list of layers never holds both a RemoteConfigFile layer and the
\* AWS/ParametersStore layer; when the remote location gave no file and the
\* read of a non-empty parameter store succeeded, the parameter-store layer
\* is in the list with the parameters of the store.
C23_ParameterStoreOnlyWithoutRemoteFiles ==
  pc = "configured" =>
    /\ LayersOf(1) = {} \/ LayersOf(2) = {}
    /\ Cardinality(LayersOf(2)) <= 1
    /\ (/\ LayersOf(1) = {}
        /\ cachedAWSConfigExistCheck = Ptr(TRUE)
        /\ cloud.ssmOK[ssmReads]
        /\ cloud.ssm # EmptyMap)
         => \E i \in LayersOf(2) : configsData[i].Raw = parseSsmConfig(cloud.ssm)

\* A remote location is configured, none of its files could be fetched, and
\* the parameters of the store are the first layer
C23_Witness ==
  /\ pc = "configured"
  /\ app.ConfigLocation = RemoteLocation
  /\ \A p \in DOMAIN cloud.remote : ~cloud.remote[p].fetched
  /\ LayersOf(1) = {}
  /\ LayersOf(2) = {1}
  /\ Defines(1, "Image")

-----------------------------------------------------------------------------
(* The search for configuration files *)

\* What findConfigFiles returned
Found == foundFiles[1]

\* The folder of a file
FolderOf(file) == Front(file)

\* C24: findConfigFiles returns each existing configuration file of the
\* working directory and of its parents once and no other file, the files of
\* a folder after those of its parents and tgf.user.config before .tgf.config
\* in a folder, so that an existing .tgf.config of the working directory is
\* the last; no tgf.user.config is returned when the user configuration is
\* disabled.
C24_RootToLeafUserFirst ==
  foundFiles # Nil =>
    /\ \A file \in DOMAIN files :
         Cardinality({i \in 1..Len(Found) : Found[i] = file})
           = IF /\ \E l \in 0..Len(cwd) : FolderOf(file) = SubSeq(cwd, 1, l)
                /\ ~(app.DisableUserConfig /\ Last(file) = userConfigFile)
             THEN 1 ELSE 0
    /\ \A i \in 1..Len(Found) : Found[i] \in DOMAIN files
    /\ \A i, j \in 1..Len(Found) :
         i < j => \/ Len(Found[i]) < Len(Found[j])
                  \/ /\ FolderOf(Found[i]) = FolderOf(Found[j])
                     /\ Last(Found[i]) = userConfigFile
                     /\ Last(Found[j]) = configFile
    /\ Append(cwd, configFile) \in DOMAIN files => Last(Found) = Append(cwd, configFile)

\* Both files exist in the working directory and in the root folder, and the
\* four were returned from the root down
C24_Witness ==
  /\ foundFiles # Nil
  /\ Len(Found) >= 4
  /\ Found[1] = <<userConfigFile>>
  /\ Found[2] = <<configFile>>
  /\ Found[Len(Found) - 1] = Append(cwd, userConfigFile)
  /\ Found[Len(Found)] = Append(cwd, configFile)

-----------------------------------------------------------------------------
(* The rules of the validation *)

\* The rule of the recommended image versions applies and the image version
\* is outside of the recommended range
OutsideRecommended ==
  /\ config.RecommendedImageVersion # << >>
  /\ HasVersion(config)
  /\ ~CheckVersionRange(config.ImageVersion[1], config.RecommendedImageVersion).err
  /\ ~CheckVersionRange(config.ImageVersion[1], config.RecommendedImageVersion).valid

\* The rule of the required versions applies and its range is malformed
RequiredMalformed ==
  /\ config.RequiredVersionRange # << >>
  /\ HasVersion(config)
  /\ CheckVersionRange(config.ImageVersion[1], config.RequiredVersionRange).err

\* The warning of the rule of the recommended image versions was reported
RecommendedWarning ==
  \E i \in 1..Len(errors) :
    errors[i] = ConfigWarning("RecommendedImageVersion", GetImageName(config))

\* C25 (as stated): an image version outside of the recommended range gets
\* the warning of that rule whether or not the required versions gave a
\* Mismatch; only a malformed required range stops the further checks.
C25_RecommendedRuleIndependent ==
  (pc = "validated" /\ OutsideRecommended /\ ~RequiredMalformed) => RecommendedWarning

\* C25 (amended): an image version outside of the recommended range gets the
\* warning of that rule exactly when the required versions gave no finding:
\* a Mismatch stops the further checks as a malformed required range does.
C25_RecommendedRuleAfterRequired ==
  (pc = "validated" /\ OutsideRecommended)
    => (RecommendedWarning
          <=> ~RequiredMalformed /\ ~HasFinding("VersionMistmatchError"))

\* The image version is outside of the required and of the recommended
\* range: the Mismatch is reported and the warning is not
C25_Witness ==
  /\ pc = "validated"
  /\ OutsideRecommended
  /\ HasFinding("VersionMistmatchError")
  /\ ~RecommendedWarning

-----------------------------------------------------------------------------
(* The end of the expansion of the aliases *)

RECURSIVE ReachesPlainToken(_, _, _)
\* Following the aliases from the leading token of `args` to the first token
\* of its replacement, for `steps` steps at most, a token that is not a key
\* of the aliases is reached
ReachesPlainToken(aliases, args, steps) ==
  IF args = << >> THEN FALSE
  ELSE IF args[1] \notin DOMAIN aliases THEN TRUE
  ELSE IF steps = 0 THEN FALSE
  ELSE ReachesPlainToken(aliases, Replacement(Protect(aliases[args[1]])), steps - 1)

RECURSIVE ReachesEnd(_, _, _)
\* The same walk, which ends as well on a key whose replacement is the empty
\* text and when there is no leading token
ReachesEnd(aliases, args, steps) ==
  IF args = << >> THEN TRUE
  ELSE IF args[1] \notin DOMAIN aliases THEN TRUE
  ELSE IF aliases[args[1]] = << >> THEN TRUE
  ELSE IF steps = 0 THEN FALSE
  ELSE ReachesEnd(aliases, Replacement(Protect(aliases[args[1]])), steps - 1)

\* The number of the aliases: a walk that visits more keys visits one twice
Aliases == Cardinality(DOMAIN config.Aliases)

\* The leading token is an alias of itself, or the first of two aliases of
\* each other
LeadsIntoCycle ==
  /\ arguments # << >>
  /\ arguments[1] \in DOMAIN config.Aliases
  /\ \E other \in DOMAIN config.Aliases :
       /\ config.Aliases[arguments[1]] # << >>
       /\ config.Aliases[other] # << >>
       /\ Replacement(Protect(config.Aliases[arguments[1]])) # << >>
       /\ Replacement(Protect(config.Aliases[arguments[1]]))[1] = other
       /\ Replacement(Protect(config.Aliases[other])) # << >>
       /\ Replacement(Protect(config.Aliases[other]))[1] = arguments[1]

\* C26 (as stated): parseAliases terminates if and only if following the
\* aliases from the leading token reaches a token that is not a key of the
\* aliases, after as many expansions as there are aliases at most; on a
\* cycle of one or two aliases it recurses without bound.
C26_TerminatesIffPlainTokenReached ==
  (expanded # Nil /\ arguments # << >>) =>
    /\ ~expanded[1].diverges <=> ReachesPlainToken(config.Aliases, arguments, Aliases)
    /\ ~expanded[1].diverges => expanded[1].expansions <= Aliases
    /\ LeadsIntoCycle => expanded[1].diverges

\* C26 (amended): parseAliases terminates if and only if following the
\* aliases from the leading token reaches a token that is not a key of the
\* aliases, a key whose replacement is the empty text, or a replacement
\* without any token (there is no argument at all, or the replacement is
\* blank); it then returns after as many expansions as there are aliases at
\* most; on a cycle of one or two aliases it recurses without bound.
C26_TerminatesIffWalkEnds ==
  expanded # Nil =>
    /\ ~expanded[1].diverges <=> ReachesEnd(config.Aliases, arguments, Aliases)
    /\ ~expanded[1].diverges => expanded[1].expansions <= Aliases
    /\ LeadsIntoCycle => expanded[1].diverges

\* d is expanded to deploy and deploy to apply, two expansions for two
\* aliases; or a and b are aliases of each other and the expansion of a
\* does not end
C26_Witness ==
  /\ expanded # Nil
  /\ \/ /\ arguments # << >>
        /\ arguments[1] = Word.d
        /\ DOMAIN config.Aliases = {Word.d, Word.deploy}
        /\ ~expanded[1].diverges
        /\ expanded[1].expansions = 2
     \/ /\ arguments # << >>
        /\ arguments[1] = Word.a
        /\ {Word.a, Word.b} \subseteq DOMAIN config.Aliases
        /\ expanded[1].diverges

-----------------------------------------------------------------------------
(* The commands that run after *)

\* C27: the run-after commands of the resolved configuration are the
\* non-empty run-after values of the layers that were parsed, in the order of
\* the layers, the least specific first: none is lost, none is there twice,
\* none has changed place.
C27_RunAfterInLayerOrder ==
  pc = "configured" => config.runAfterCommands = Contributions("RunAfter")

\* Two layers give different run-after commands and another layer gives
\* none: the two commands are there in the order of their layers
C27_Witness ==
  /\ pc = "configured"
  /\ Len(config.runAfterCommands) = 2
  /\ config.runAfterCommands[1] # config.runAfterCommands[2]
  /\ \E i, j \in 1..Len(configsData) :
       /\ i < j
       /\ configsData[i].Raw.ok /\ configsData[j].Raw.ok
       /\ Defines(i, "RunAfter") /\ Defines(j, "RunAfter")
       /\ config.runAfterCommands
            = <<configsData[i].Raw.set["RunAfter"], configsData[j].Raw.set["RunAfter"]>>
  /\ \E k \in 1..Len(configsData) : ~Defines(k, "RunAfter")

-----------------------------------------------------------------------------
(* Versions without a patch component *)

\* The patch components that a major.minor version may stand for: those up
\* to 9, and 9999, which is above every bound of the ranges
Patches == {<<d>> : d \in Digits} \cup {<<"9", "9", "9", "9">>}

\* The range is well formed and the version major.minor.patch lies in it
LiesInRange(majorMinor, patch, range) ==
  /\ ~ParseRange(range).err
  /\ ~Parse(majorMinor \o <<".">> \o patch).err
  /\ InRange(ParseRange(range).comp, Parse(majorMinor \o <<".">> \o patch).v)

\* CheckVersionRange was given a major.minor version and returned no error
ComparedPartial ==
  /\ inRange # Nil
  /\ Count(compared[1].version, ".") = 1
  /\ ~inRange[1].err

\* C28: a major.minor version is accepted for a range exactly when one of
\* the versions major.minor.P lies in the range, as if its patch component
\* were a wildcard: a bound on the patch in the range does not change the
\* outcome.
C28_PartialVersionAsWildcard ==
  ComparedPartial =>
    (inRange[1].valid
       <=> \E patch \in Patches :
             LiesInRange(compared[1].version, patch, compared[1].compare))

\* 1.2 was compared with <1.2.5, in which 1.2.0 lies, and was rejected
C28_Witness ==
  /\ ComparedPartial
  /\ compared[1].version = <<"1", ".", "2">>
  /\ compared[1].compare = BelowOneTwoFive
  /\ LiesInRange(compared[1].version, <<"0">>, compared[1].compare)
  /\ ~inRange[1].valid

-----------------------------------------------------------------------------
(* The characters of the tags *)

\* a-z, A-Z, 0-9, the dot, the underscore and the hyphen
Allowed ==
  {"a", "b", "c", "d", "e", "f", "g", "h", "i", "j", "k", "l", "m", "n", "o", "p",
   "q", "r", "s", "t", "u", "v", "w", "x", "y", "z",
   "A", "B", "C", "D", "E", "F", "G", "H", "I", "J", "K", "L", "M", "N", "O", "P",
   "Q", "R", "S", "T", "U", "V", "W", "X", "Y", "Z",
   "0", "1", "2", "3", "4", "5", "6", "7", "8", "9", ".", "_", "-"}

\* The tags of BuildTags without their other characters, written down by hand
Cleaned(tag) ==
  IF tag = <<"v", ":", "1">> THEN <<"v", "1">>
  ELSE IF tag = <<"a", "/", "b", "-", "1", ".", "0", "_", "x", " ">>
  THEN <<"a", "b", "-", "1", ".", "0", "_", "x">>
  ELSE tag

\* C29: the text that GetTag returns is made of the characters a-z, A-Z, 0-9,
\* dot, underscore and hyphen only; when the build has a tag of its own, the
\* result is that tag without its other characters, whatever the build
\* instructions and the files of the build folder are.
C29_TagCharactersOnly ==
  \A i \in 1..Len(tagged) :
    /\ \A k \in 1..Len(tagged[i].tag.text) : tagged[i].tag.text[k] \in Allowed
    /\ buildConfig.Tag # << >> =>
         /\ tagged[i].tag = [text |-> Cleaned(buildConfig.Tag), sum |-> Nil]
         /\ tagged[i].tag = tagged[1].tag
         /\ \A instructions \in {"", "RUN build", "RUN other"} :
              GetTag([buildConfig EXCEPT !.Instructions = instructions], cwd, tree)
                = tagged[i].tag

\* The tag a/b-1.0_x was returned as ab-1.0_x by two calls between which a
\* file of the build folder was touched
C29_Witness ==
  /\ Len(tagged) = 2
  /\ buildConfig.Tag = <<"a", "/", "b", "-", "1", ".", "0", "_", "x", " ">>
  /\ buildConfig.Folder # << >>
  /\ tagged[1].tree # tagged[2].tree
  /\ tagged[2].tag.text = <<"a", "b", "-", "1", ".", "0", "_", "x">>

-----------------------------------------------------------------------------
(* The first computation of the gate *)

\* One of the signs of a cloud context is there: the override variable, a
\* variable of the cloud identity, the aws CLI on the search path, the
\* folder ~/.aws
CloudContext ==
  \/ osEnv["TGF_USE_AWS_CONFIG"] # ""
  \/ osEnv["AWS_PROFILE"] # ""
  \/ osEnv["AWS_ACCESS_KEY_ID"] # ""
  \/ osEnv["AWS_CONFIG_FILE"] # ""
  \/ cloud.awsCli
  \/ cloud.awsFolder

\* The step in which awsConfigExist computes its result
FirstComputation == gates = << >> /\ gates' # << >>

\* C30 (as stated): the first computation of the gate gives true when the
\* override variable is set, a variable of the cloud identity is present, the
\* aws CLI is on the search path or ~/.aws exists, and false otherwise.
C30_TrueIffCloudContext ==
  [][FirstComputation => (gates'[1] <=> CloudContext)]_vars

\* C30 (amended): the first computation of the gate gives true when the use
\* of AWS is not disabled on the command line and the override variable is
\* set, a variable of the cloud identity is present, the aws CLI is on the
\* search path or ~/.aws exists; it gives false otherwise, in particular
\* whenever the use of AWS is disabled.
C30_TrueIffEnabledAndCloudContext ==
  [][FirstComputation => (gates'[1] <=> (app.UseAWS /\ CloudContext))]_vars

\* The gate was computed once, to false, with the use of AWS disabled and the
\* override variable set
C30_Witness ==
  /\ Len(gates) = 1
  /\ ~gates[1]
  /\ cachedAWSConfigExistCheck = Ptr(FALSE)
  /\ ~app.UseAWS
  /\ osEnv["TGF_USE_AWS_CONFIG"] # ""
  /\ Unmemoized = gates[1]

-----------------------------------------------------------------------------
(* The command line before the configuration *)

\* C31: a flag of the command line decides alone: with --no-auto-update
\* ShouldUpdate returns false, even when the configuration enables the
\* updates and the delay has elapsed; with --auto-update it returns true,
\* even when the configuration disables them, the delay has not elapsed or
\* tgf is a local build.
C31_CommandLineFirst ==
  due # Nil =>
    /\ ForceDisabled => ~due[1].result
    /\ ForceEnabled => due[1].result

\* An update is due for --auto-update although the configuration disables
\* the updates, the last check is more recent than the delay and tgf was
\* built locally
C31_Witness ==
  /\ due # Nil
  /\ due[1].result
  /\ ForceEnabled
  /\ ~config.AutoUpdate
  /\ sinceRefresh < config.AutoUpdateDelay
  /\ LocalBuild

-----------------------------------------------------------------------------
(* The credentials and the dump of the configuration *)

\* The step of a call of InitAWS
InitAWSStep ==
  /\ Len(served') = Len(served) + 1
  /\ served'[Len(served')].by = "InitAWS"

\* The variables that InitAWS exports
ExportedVariables ==
  {"AWS_ACCESS_KEY_ID", "AWS_SECRET_ACCESS_KEY", "AWS_SESSION_TOKEN", "AWS_REGION"}

\* What a session gives to a variable that InitAWS exports
Resolved(session, key) ==
  IF key = "AWS_ACCESS_KEY_ID" THEN Credentials(session).AccessKeyID
  ELSE IF key = "AWS_SECRET_ACCESS_KEY" THEN Credentials(session).SecretAccessKey
  ELSE IF key = "AWS_SESSION_TOKEN" THEN Credentials(session).SessionToken
  ELSE session.Region

\* C32: with ConfigDump, InitAWS leaves the environment of the configuration
\* as it was: none of the access key, the secret, the token and the region
\* is added to it; without ConfigDump, a successful InitAWS leaves the four
\* of them in it with the values of the session, and the other entries as
\* they were.
C32_NoCredentialsInDump ==
  [][InitAWSStep =>
       IF app.ConfigDump
       THEN config'.Environment = config.Environment
       ELSE ~served'[Len(served')].failed =>
              /\ DOMAIN config'.Environment
                   = DOMAIN config.Environment \cup ExportedVariables
              /\ \A k \in ExportedVariables :
                   config'.Environment[k] = Resolved(served'[Len(served')].session, k)
              /\ \A k \in DOMAIN config.Environment \ ExportedVariables :
                   config'.Environment[k] = config.Environment[k]]_vars

\* In the mode of the dump InitAWS succeeded: the access key is in the
\* environment of the process and not in the one of the configuration, which
\* still holds its own variable
C32_Witness ==
  /\ app.ConfigDump
  /\ served # << >>
  /\ served[Len(served)].by = "InitAWS"
  /\ ~served[Len(served)].failed
  /\ osEnv["AWS_ACCESS_KEY_ID"] = Credentials(served[Len(served)].session).AccessKeyID
  /\ config.Environment = [FOO |-> "bar"]

-----------------------------------------------------------------------------
(* The version of tgf across ShouldUpdate *)

\* C33: ShouldUpdate leaves the version of tgf as it was, so that validate
\* gives the same findings before and after it; for a tgf that was built
\* locally the check of the recommended versions of tgf stays skipped.
C33_ShouldUpdateLeavesVersion ==
  due # Nil =>
    /\ version = due[1].version
    /\ validate(config, version) = validate(config, due[1].version)
    /\ LocalBuild => ToolFindings(config, version) = << >>

\* --auto-update on a tgf that was built locally, with >= 1.21.0 recommended:
\* validate found nothing before ShouldUpdate and warns of the version 0.0.0
\* after it
C33_Witness ==
  /\ due # Nil
  /\ ForceEnabled
  /\ LocalBuild
  /\ config.RecommendedTGFVersion = FromOneTwentyOne
  /\ version = <<"0", ".", "0", ".", "0">>
  /\ validate(config, due[1].version) = << >>
  /\ validate(config, version)
       = <<ConfigWarning("RecommendedTGFVersion", <<"0", ".", "0", ".", "0">>)>>

-----------------------------------------------------------------------------
(* The result of the expansion *)

\* The leading token of the arguments is a key of the aliases whose
\* replacement is not the empty text
LeadsWithAlias(args) ==
  /\ args # << >>
  /\ args[1] \in DOMAIN config.Aliases
  /\ config.Aliases[args[1]] # << >>

\* C34: when parseAliases returns, the leading token of what it returns is no
\* key of the aliases with a non-empty replacement: a second parseAliases
\* returns its arguments as they are.
C34_ExpansionComplete ==
  Returns =>
    /\ ~LeadsWithAlias(Returned)
    /\ parseAliases(config.Aliases, Returned, {})
         = [diverges |-> FALSE, expansions |-> 0, args |-> Returned]

\* w stands for a space and deploy for apply -auto-approve: w deploy has
\* become deploy, which a second parseAliases would expand
C34_Witness ==
  /\ Returns
  /\ arguments = <<Word.w, Word.deploy>>
  /\ {Word.w, Word.deploy} \subseteq DOMAIN config.Aliases
  /\ Returned = <<Word.deploy>>
  /\ LeadsWithAlias(Returned)
  /\ parseAliases(config.Aliases, Returned, {}).args = <<Word.apply, Word.autoApprove>>

=============================================================================
